---- MODULE Spec2Model ----
(***************************************************************************)
(* MCP Citadel: the supervisor (HubManager, src/src/router/mod.rs) and the *)
(* streaming HTTP session layer (src/src/transport/http.rs).               *)
(*                                                                         *)
(* Spec       the supervisor: route_message callers, children, health tick *)
(* FairSpec   route_message callers and children under weak fairness       *)
(* HttpSpec   streaming POSTs, their spawned responders and the sessions   *)
(* SseSpec    the SSE streams of POST and GET and what they deliver        *)
(* PostSpec   handle_post and handle_get on one request drawn at the start *)
(* ExpirySpec the session clock, touch() and the expiry sweeper            *)
(* HubSpec    start_hub: the select over its tasks and the shutdown        *)
(* RestartSpec the health task beside one local-socket connection          *)
(* ShutdownSpec HubSpec with children that hang, under fairness            *)
(* ResumeSpec GETs with last-event-id on a session that buffers events     *)
(* SweepSpec  the expiry sweeper beside requests that create and touch     *)
(* DisconnectSpec streaming POSTs whose clients leave, under fairness       *)
(* ClientSpec handle_client: the connections of the local socket           *)
(* DaemonSpec the start and stop commands and the PID file                 *)
(* LockSpec   the three mutexes and the order the tasks take them in       *)
(***************************************************************************)
EXTENDS Naturals, Integers, Sequences, FiniteSets, TLC

VARIABLES
    servers,         \* HubManager.servers: name -> MCPServerProcess
    restart_counts,  \* HubManager.restart_counts: name -> u32
    lock,            \* holder of the servers mutex: a task, or 0 when free
    tasks,           \* every route_message caller and its position
    starts,          \* per name, the MCPServerProcess::start calls of the latest health tick
    calls,           \* the number of route_message calls made so far
    sessions,        \* AppState.sessions: session id -> HttpSession
    created,         \* the number of HttpSession::new calls so far
    emitted,         \* per session id, the event ids of its data events, in the
                     \* order the responders buffer and enqueue them
    now,             \* Instant::now() of the HTTP transport, in seconds
    response,        \* the HTTP response sent last
    streams,         \* the SSE response streams, in the order they were opened
    requested,       \* per session id, when a request bearing it was last accepted
    request,         \* the request a PostSpec run is about
    hub,             \* start_hub: its tasks, the signal, and where it stands
    conns,           \* the local-socket connections: handle_client's server_name,
                     \* the call it waits for, and what it has written
    daemon,          \* the PID file and the processes of the start commands
    mutexes          \* who holds the servers, sessions and restart_counts mutexes,
                     \* and where each task of the hub stands in its locking

vars == <<servers, restart_counts, lock, tasks, starts, calls, sessions, created, emitted,
          now, response, streams, requested, request, hub, conns, daemon, mutexes>>

httpVars == <<sessions, created, emitted, now, response, streams, requested, request>>

----------------------------------------------------------------------------
(* Program constants *)

MAX_RESTARTS == 3
IMMEDIATE_CRASH_SECS == 5
MAX_BUFFER_SIZE == 100

(* Bounds of the model *)

MaxCalls == 2      \* route_message calls made in one run
MaxSessions == 2   \* session ids that can be generated
MaxStreams == 3    \* SSE streams opened in one run
MaxTime == 3       \* seconds the session clock runs
SessionTimeout == 2  \* config.session_timeout_secs of the run
MaxLines == 2      \* lines handle_client reads from one connection
MaxPids == 4       \* processes the start commands of one run create

configs == <<"alpha", "beta">>
Names == {configs[i] : i \in DOMAIN configs}
Tasks == 1..MaxCalls
SessionIds == 1..MaxSessions
\* Two clients of the local socket, the first to connect and the second.
Conns == {1, 2}
Pids == 1..MaxPids

----------------------------------------------------------------------------
(* Helpers on maps (HashMap get / insert / remove) *)

Has(m, k) == k \in DOMAIN m

Insert(m, k, v) == [x \in DOMAIN m \cup {k} |-> IF x = k THEN v ELSE m[x]]

EmptyMap == [x \in {} |-> 0]

\* restart_counts.entry(name).or_insert(0), read
CountOf(rc, n) == IF Has(rc, n) THEN rc[n] ELSE 0

----------------------------------------------------------------------------
(* MCPServerProcess *)

\* The handle start() returns on success: a running process with empty
\* pipes and start_time = now.
NewProcess ==
    [exited |-> FALSE, uptime |-> 0, hung |-> FALSE, stdin |-> <<>>, stdout |-> <<>>]

\* Results of route_message.  Requests are numbered in call order; an Ok
\* reply carries the number of the request it answers, and 0 is the empty
\* vector read_until leaves at EOF.
Ok(r)    == [kind |-> "Ok", reply |-> r]
NotFound == [kind |-> "NotFound", reply |-> 0]
IoError  == [kind |-> "IoError", reply |-> 0]
NoResult == [kind |-> "None", reply |-> 0]

\* The Vec<u8> an Ok result stands for: the line read_until returned, its
\* '\n' included, or no byte at all at EOF.
response_bytes(result) ==
    IF result.reply = 0 THEN <<>> ELSE <<result.reply, "\n">>

\* id is the "id" member of the request ("none" when it has none), stream
\* the SSE stream a responder sends on.
IdleTask ==
    [kind |-> "none", pc |-> "idle", target |-> "", req |-> 0,
     result |-> NoResult, session |-> 0, event_id |-> 0, id |-> "none", stream |-> 0]

\* Task slots are taken in order: the lowest idle one is the next caller.
NextSlot(t) ==
    /\ calls < MaxCalls
    /\ tasks[t].pc = "idle"
    /\ \A u \in Tasks : u < t => tasks[u].pc # "idle"

\* A caller with the next request number, about to call route_message.
NewCaller(k, n) ==
    [IdleTask EXCEPT !.kind = k, !.pc = "lock", !.target = n, !.req = calls + 1]

----------------------------------------------------------------------------
(* HubManager::new: start every config in order; failures are omitted *)

\* A HubManager::new that inserts a handle for every config, also for one
\* whose process was found crashed at start.
HubManager_new_KeepsFailed(started) ==
    [n \in Names |-> IF started[n] THEN NewProcess ELSE [NewProcess EXCEPT !.exited = TRUE]]

\* The map HubManager::new builds: started[n] is whether
\* MCPServerProcess::start returned Ok for config n.
HubManager_new(started) ==
    [n \in {m \in Names : started[m]} |-> NewProcess]

\* start_hub at its select!: the manager constructed, the router task and
\* the HTTP task spawned and running, no signal delivered.  started keeps
\* what each start of the construction returned.
HubStarted(started) ==
    [phase |-> "running", signal |-> FALSE, router_task |-> "running", http_task |-> "running",
     started |-> started]

\* A connection the listener has not accepted yet.  server_name is
\* handle_client's Option<String>, task the route_message call it waits
\* for (0: none), lines the number of lines it has read, wrote what it
\* wrote to its socket for the last of them: <<>> when nothing, else the
\* request number of a reply line or the code of an error line.
NoConn ==
    [state |-> "none", server_name |-> [some |-> FALSE, name |-> ""],
     task |-> 0, wrote |-> <<>>, lines |-> 0]

\* A pid that names no process.
NoProc == [kind |-> "none", pc |-> "none", child |-> 0]

\* The hub running in the foreground as process 1, hub.pid naming it.
HubAlone ==
    [pid_file |-> 1,
     procs |-> [p \in Pids |-> IF p = 1 THEN [kind |-> "hub", pc |-> "running", child |-> 0]
                                       ELSE NoProc]]

\* The three tokio mutexes of the hub.
Mutexes == {"servers", "sessions", "restart_counts"}

\* The tasks that take them: the direct-JSON and the streaming POST
\* handler, the responder the latter spawns, the GET handler, the session
\* sweeper, the health task, and handle_client of the local socket.
Workers == {"post_json", "post_sse", "responder", "get", "sweeper", "health", "client"}

\* Every mutex free, every task before the first step of its locking.
MutexesFree ==
    [held |-> [m \in Mutexes |-> "none"], pc |-> [w \in Workers |-> 1]]

InitSup ==
    /\ conns = [c \in Conns |-> NoConn]
    /\ mutexes = MutexesFree
    /\ daemon = HubAlone
    /\ hub \in {HubStarted(started) : started \in [Names -> BOOLEAN]}
    /\ servers = HubManager_new(hub.started)
    /\ restart_counts = EmptyMap
    /\ starts = [n \in Names |-> 0]
    /\ lock = 0
    /\ tasks = [t \in Tasks |-> IdleTask]
    /\ calls = 0

\* No JSON-RPC error object.
NoError == [code |-> 0, id |-> "", type |-> "", server |-> ""]

\* No HTTP response yet.
NoResponse == [status |-> 0, content |-> "none", reply |-> <<>>, error |-> NoError]

\* A request that is never sent: the runs that draw no request hold it.
NoRequest ==
    [headers |-> [origin |-> <<>>, version |-> "", session |-> 0, last_event_id |-> 0 - 1],
     body |-> [json |-> FALSE, method |-> [kind |-> "absent", segs |-> <<>>],
               server |-> [kind |-> "absent", text |-> ""], id |-> "none"]]

\* HttpTransport::start and start_hub before any request and any failure.
InitIdle ==
    /\ now = 0
    /\ response = NoResponse
    /\ streams = <<>>
    /\ requested = [s \in SessionIds |-> 0]
    /\ request = NoRequest

Init ==
    /\ InitSup
    /\ sessions = EmptyMap
    /\ created = 0
    /\ emitted = [s \in SessionIds |-> <<>>]
    /\ InitIdle

----------------------------------------------------------------------------
(* route_message and send_receive *)

\* handle_client (local socket) or the direct-JSON POST handler calls
\* route_message and waits for the servers mutex.
Call(t, k, n) ==
    /\ NextSlot(t)
    /\ tasks' = [tasks EXCEPT ![t] = NewCaller(k, n)]
    /\ calls' = calls + 1
    /\ UNCHANGED <<servers, restart_counts, lock, starts, httpVars, hub, conns, daemon, mutexes>>

\* route_message without the mutex: the lookup and the write go ahead
\* whoever holds the guard.
RouteLock_NoMutex(t) ==
    /\ tasks[t].pc = "lock"
    /\ LET n == tasks[t].target IN
         IF ~Has(servers, n)
         THEN /\ tasks' = [tasks EXCEPT ![t].pc = "routed", ![t].result = NotFound]
              /\ UNCHANGED <<servers, lock>>
         ELSE /\ servers' = [servers EXCEPT ![n].stdin = Append(@, tasks[t].req)]
              /\ lock' = t
              /\ tasks' = [tasks EXCEPT ![t].pc = "read"]
    /\ UNCHANGED <<restart_counts, starts, calls, httpVars, hub, conns, daemon, mutexes>>

\* servers.lock().await, the lookup, and send_receive's write_all + flush.
\* The guard stays held while the caller waits for the reply line.
RouteLock(t) ==
    /\ tasks[t].pc = "lock"
    /\ lock = 0
    /\ LET n == tasks[t].target IN
         IF ~Has(servers, n)
         THEN /\ tasks' = [tasks EXCEPT ![t].pc = "routed", ![t].result = NotFound]
              /\ UNCHANGED <<servers, lock>>
         ELSE IF servers[n].exited
         THEN \* the pipe's read end is closed: write_all fails
              /\ tasks' = [tasks EXCEPT ![t].pc = "routed", ![t].result = IoError]
              /\ UNCHANGED <<servers, lock>>
         ELSE /\ servers' = [servers EXCEPT ![n].stdin = Append(@, tasks[t].req)]
              /\ lock' = t
              /\ tasks' = [tasks EXCEPT ![t].pc = "read"]
    /\ UNCHANGED <<restart_counts, starts, calls, httpVars, hub, conns, daemon, mutexes>>

\* read_until(b'\n'): one line of the child's stdout, or nothing at EOF.
RouteRead(t) ==
    /\ tasks[t].pc = "read"
    /\ lock = t
    /\ LET n == tasks[t].target IN
         \/ /\ servers[n].stdout # <<>>
            /\ tasks' = [tasks EXCEPT ![t].pc = "routed",
                                      ![t].result = Ok(Head(servers[n].stdout))]
            /\ servers' = [servers EXCEPT ![n].stdout = Tail(@)]
         \/ /\ servers[n].stdout = <<>>
            /\ servers[n].exited
            /\ tasks' = [tasks EXCEPT ![t].pc = "routed", ![t].result = Ok(0)]
            /\ UNCHANGED servers
    /\ lock' = 0
    /\ UNCHANGED <<restart_counts, starts, calls, httpVars, hub, conns, daemon, mutexes>>

\* The caller takes the result: handle_client writes it to its socket, the
\* direct-JSON handler returns it as the HTTP response.
Return(t) ==
    /\ tasks[t].kind \in {"local", "direct"}
    /\ tasks[t].pc = "routed"
    /\ tasks' = [tasks EXCEPT ![t] = IdleTask]
    /\ UNCHANGED <<servers, restart_counts, lock, starts, calls, httpVars, hub, conns, daemon, mutexes>>

\* The direct-JSON handler's future is dropped when its client disconnects:
\* the call ends where it is, and a guard it holds is released.
Abandon(t) ==
    /\ tasks[t].kind = "direct"
    /\ tasks[t].pc \in {"lock", "read"}
    /\ tasks' = [tasks EXCEPT ![t] = IdleTask]
    /\ lock' = IF lock = t THEN 0 ELSE lock
    /\ UNCHANGED <<servers, restart_counts, starts, calls, httpVars, hub, conns, daemon, mutexes>>

----------------------------------------------------------------------------
(* The children and the clock *)

\* A child answers its request lines one by one, in order.
ChildReply(n) ==
    /\ Has(servers, n)
    /\ ~servers[n].exited
    /\ ~servers[n].hung
    /\ servers[n].stdin # <<>>
    /\ servers' = [servers EXCEPT ![n].stdout = Append(@, Head(servers[n].stdin)),
                                  ![n].stdin = Tail(@)]
    /\ UNCHANGED <<restart_counts, lock, tasks, starts, calls, httpVars, hub, conns, daemon, mutexes>>

\* The process exits; request lines it has not read are lost, reply lines
\* it has written stay readable in the pipe.
ChildExit(n) ==
    /\ Has(servers, n)
    /\ ~servers[n].exited
    /\ servers' = [servers EXCEPT ![n].exited = TRUE, ![n].stdin = <<>>]
    /\ UNCHANGED <<restart_counts, lock, tasks, starts, calls, httpVars, hub, conns, daemon, mutexes>>

\* A child that stops answering without exiting.
ChildHang(n) ==
    /\ Has(servers, n)
    /\ ~servers[n].exited
    /\ ~servers[n].hung
    /\ servers' = [servers EXCEPT ![n].hung = TRUE]
    /\ UNCHANGED <<restart_counts, lock, tasks, starts, calls, httpVars, hub, conns, daemon, mutexes>>

\* start_time.elapsed() grows for every handle in the map, running or not;
\* only uptime.as_secs() < 5 is ever read, so it is kept up to 5 and the
\* clock moves in steps that take a young handle past the threshold.
Aged(u, d) == IF u + d > IMMEDIATE_CRASH_SECS THEN IMMEDIATE_CRASH_SECS ELSE u + d

Elapse(d) ==
    /\ \E n \in DOMAIN servers : servers[n].uptime < IMMEDIATE_CRASH_SECS
    /\ servers' = [n \in DOMAIN servers |->
                     [servers[n] EXCEPT !.uptime = Aged(@, d)]]
    /\ UNCHANGED <<restart_counts, lock, tasks, starts, calls, httpVars, hub, conns, daemon, mutexes>>

----------------------------------------------------------------------------
(* HubManager::health_check: one tick, under the servers mutex and the    *)
(* restart_counts mutex, over every config in order.  Config names are    *)
(* distinct, so the loop body acts on each name's entries independently.  *)

\* A health check without the immediate-crash classification.
IsImmediateCrash_Never(p) == FALSE

\* let is_immediate_crash = uptime.as_secs() < 5
IsImmediateCrash(p) == p.uptime < IMMEDIATE_CRASH_SECS

\* The cap compared with > instead of >=, and the cap taken for 1.
GivesUp_OffByOne(count) == count > MAX_RESTARTS

GivesUp_AfterFirst(count) == count >= 1

\* A health check without the cap.
GivesUp_Never(count) == FALSE

\* if *count >= MAX_RESTARTS
GivesUp(count) == count >= MAX_RESTARTS

\* A loop body that also starts the configs missing from the map.
HealthVerdict_Revive(n) ==
    IF ~Has(servers, n) THEN "restart"
    ELSE IF ~servers[n].exited THEN "alive"
    ELSE IF IsImmediateCrash(servers[n]) THEN "fast"
    ELSE IF GivesUp(CountOf(restart_counts, n)) THEN "giveup"
    ELSE "restart"

\* A loop body that passes over the children it finds alive.
HealthVerdict_NoReset(n) ==
    IF ~Has(servers, n) \/ ~servers[n].exited THEN "skip"
    ELSE IF IsImmediateCrash(servers[n]) THEN "fast"
    ELSE IF GivesUp(CountOf(restart_counts, n)) THEN "giveup"
    ELSE "restart"

\* What the loop body does for config n: nothing when the name is not in
\* the map, else by try_wait, the uptime and the count.
HealthVerdict(n) ==
    IF ~Has(servers, n) THEN "skip"
    ELSE IF ~servers[n].exited THEN "alive"
    ELSE IF IsImmediateCrash(servers[n]) THEN "fast"
    ELSE IF GivesUp(CountOf(restart_counts, n)) THEN "giveup"
    ELSE "restart"

\* ok[n]: whether MCPServerProcess::start succeeds for n on this tick.
\* (A try_wait that fails is only logged: the tick leaves that name as it is.)
HealthCheck(ok) ==
    /\ lock = 0
    /\ servers' =
         [n \in {m \in Names :
                   \/ Has(servers, m) /\ HealthVerdict(m) \notin {"fast", "giveup"}
                   \/ HealthVerdict(m) = "restart" /\ ok[m]} |->
            IF HealthVerdict(n) = "restart" /\ ok[n]
            THEN NewProcess
            ELSE servers[n]]
    /\ restart_counts' =
         [n \in DOMAIN restart_counts \cup {m \in Names : HealthVerdict(m) # "skip"} |->
            CASE HealthVerdict(n) = "alive"   -> 0
              [] HealthVerdict(n) = "restart" -> CountOf(restart_counts, n) + 1
              [] OTHER                        -> CountOf(restart_counts, n)]
    /\ starts' = [n \in Names |-> IF HealthVerdict(n) = "restart" THEN 1 ELSE 0]
    /\ UNCHANGED <<lock, tasks, calls, httpVars, hub, conns, daemon, mutexes>>

----------------------------------------------------------------------------
(* The supervisor's specification.  Its callers are direct-JSON POST      *)
(* handlers, whose futures can be dropped; a handle_client caller on the  *)
(* local socket is such a caller in the runs where it is not dropped.     *)

Next ==
    \/ \E t \in Tasks, n \in Names : Call(t, "direct", n)
    \/ \E t \in Tasks : RouteLock(t)
    \/ \E t \in Tasks : RouteRead(t)
    \/ \E t \in Tasks : Return(t)
    \/ \E t \in Tasks : Abandon(t)
    \/ \E n \in Names : ChildReply(n)
    \/ \E n \in Names : ChildExit(n)
    \/ Elapse(IMMEDIATE_CRASH_SECS)
    \/ \E ok \in [Names -> BOOLEAN] : HealthCheck(ok)

Spec == Init /\ [][Next]_vars

----------------------------------------------------------------------------
(* Callers that are never dropped (handle_client on the local socket) and  *)
(* children that may stop answering, under the scheduler's fairness: a    *)
(* runnable task is eventually run, a child that answers does answer.     *)

NextFair ==
    \/ \E t \in Tasks, n \in Names : Call(t, "local", n)
    \/ \E t \in Tasks : RouteLock(t)
    \/ \E t \in Tasks : RouteRead(t)
    \/ \E t \in Tasks : Return(t)
    \/ \E n \in Names : ChildReply(n)
    \/ \E n \in Names : ChildExit(n)
    \/ \E n \in Names : ChildHang(n)

FairSpec ==
    /\ Init
    /\ [][NextFair]_vars
    /\ \A t \in Tasks : WF_vars(RouteLock(t)) /\ WF_vars(RouteRead(t))
    /\ \A n \in Names : WF_vars(ChildReply(n))

----------------------------------------------------------------------------
(* The health task beside one connection of the local socket, whose       *)
(* handle_client makes its route_message calls one after the other.       *)

NextRestart ==
    \/ \E n \in Names : Call(1, "local", n)
    \/ RouteLock(1)
    \/ RouteRead(1)
    \/ Return(1)
    \/ \E n \in Names : ChildReply(n)
    \/ \E n \in Names : ChildExit(n)
    \/ Elapse(IMMEDIATE_CRASH_SECS)
    \/ \E ok \in [Names -> BOOLEAN] : HealthCheck(ok)

RestartSpec == Init /\ [][NextRestart]_vars

TypeOK ==
    /\ DOMAIN servers \subseteq Names
    /\ DOMAIN restart_counts \subseteq Names
    /\ lock \in 0..MaxCalls
    /\ calls \in 0..MaxCalls
    /\ DOMAIN sessions \subseteq SessionIds
    /\ \A t \in Tasks : lock = t => tasks[t].pc = "read"

----------------------------------------------------------------------------
(* HttpSession *)

\* HttpSession::new: created now, no event allocated, nothing buffered.
\* server_name and event_tx are stored and never read; they are left out.
HttpSession_new == [last_activity |-> now, last_event_id |-> 0, message_buffer |-> <<>>]

\* An is_expired that already holds at the timeout.
is_expired_AtTimeout(session, timeout) == now - session.last_activity >= timeout

\* self.last_activity.elapsed() > timeout
is_expired(session, timeout) == now - session.last_activity > timeout

\* self.last_activity = Instant::now()
touch(session) == [session EXCEPT !.last_activity = now]

\* self.last_event_id += 1; the id returned is the new last_event_id.
next_event_id(session) == [session EXCEPT !.last_event_id = @ + 1]

BufferedMessage(event_id, event_type, data) ==
    [event_id |-> event_id, event_type |-> event_type, data |-> data]

\* A buffer_message that never trims.
buffer_message_NoLimit(session, event_id, event_type, data) ==
    [session EXCEPT !.message_buffer =
        Append(@, BufferedMessage(event_id, event_type, data))]

\* push, then remove(0) when the length has passed MAX_BUFFER_SIZE.
buffer_message(session, event_id, event_type, data) ==
    LET pushed == Append(session.message_buffer,
                         BufferedMessage(event_id, event_type, data))
    IN  [session EXCEPT !.message_buffer =
            IF Len(pushed) > MAX_BUFFER_SIZE THEN Tail(pushed) ELSE pushed]

\* The event ids of a replay buffer, front first.
BufferIds(session) ==
    [i \in 1..Len(session.message_buffer) |-> session.message_buffer[i].event_id]

\* iter().filter(pred).collect(): the elements that pass, in their order.
RECURSIVE FilterAfter(_, _)
FilterAfter(buffer, last_event_id) ==
    IF buffer = <<>> THEN <<>>
    ELSE IF Head(buffer).event_id > last_event_id
         THEN <<Head(buffer)>> \o FilterAfter(Tail(buffer), last_event_id)
         ELSE FilterAfter(Tail(buffer), last_event_id)

get_messages_after(session, last_event_id) ==
    FilterAfter(session.message_buffer, last_event_id)

----------------------------------------------------------------------------
(* Requests.  A header or JSON string is the sequence of the pieces that   *)
(* the code looks for in it: "sampling/createMessage" is                   *)
(* <<"sampling", "createMessage">>, an Origin is its scheme, host and port.*)
(* The empty sequence is a header that is not there.  A JSON member is     *)
(* absent, a string, or a value of another type.                           *)

JsonAbsent == [kind |-> "absent", text |-> ""]
JsonOther == [kind |-> "other", text |-> ""]
JsonString(s) == [kind |-> "string", text |-> s]

MethodAbsent == [kind |-> "absent", segs |-> <<>>]
MethodOther == [kind |-> "other", segs |-> <<>>]
MethodString(segs) == [kind |-> "string", segs |-> segs]

\* str::contains for a piece
Contains(text, piece) == \E i \in DOMAIN text : text[i] = piece

\* headers.typed_get::<Origin>(): the header decoded as an origin, or None
\* (the empty sequence) when it is missing or does not decode.  An origin
\* is the literal null or scheme://host[:port].
typed_get_Origin(headers) ==
    LET value == headers.origin IN
        IF value = <<"null">> THEN value
        ELSE IF Len(value) >= 2 /\ value[1] \in {"http://", "https://"} THEN value
        ELSE <<>>

\* validate_origin: 0 for Ok(()), else the status of the Err.
validate_origin(headers) ==
    LET origin_str == typed_get_Origin(headers) IN
        IF origin_str # <<>>
        THEN IF \/ Contains(origin_str, "localhost")
                \/ Contains(origin_str, "127.0.0.1")
                \/ origin_str = <<"null">>
             THEN 0 ELSE 403
        ELSE 0

\* headers.get("mcp-protocol-version") ... unwrap_or("2025-03-26"), and the
\* comparison with the two supported versions.
version_supported(headers) ==
    LET protocol_version == IF headers.version = "" THEN "2025-03-26" ELSE headers.version
    IN  protocol_version = "2025-06-18" \/ protocol_version = "2025-03-26"

\* json_value.get("method").and_then(|m| m.as_str()).unwrap_or("")
method_of(body) ==
    IF body.method.kind = "string" THEN body.method.segs ELSE <<"">>

\* A needs_streaming that also streams tools/call.
needs_streaming_Wider(method) ==
    method \in {<<"initialize">>, <<"initialized">>, <<"sampling", "createMessage">>,
                <<"roots", "list_changed">>, <<"notifications", "cancelled">>,
                <<"notifications", "progress">>, <<"tools", "call">>}

needs_streaming(method) ==
    method \in {<<"initialize">>, <<"initialized">>, <<"sampling", "createMessage">>,
                <<"roots", "list_changed">>, <<"notifications", "cancelled">>,
                <<"notifications", "progress">>}

None == [some |-> FALSE, name |-> ""]
Some(name) == [some |-> TRUE, name |-> name]

\* An extract_server_name that tries the method prefix first.
extract_server_name_MethodFirst(body) ==
    IF ~body.json THEN None
    ELSE IF body.method.kind = "string" THEN Some(Head(body.method.segs))
    ELSE IF body.server.kind = "string" THEN Some(body.server.text)
    ELSE None

\* extract_server_name (the same text in router/mod.rs and transport/http.rs):
\* params.server when that member exists, its as_str(); else the part of a
\* string method before the first '/'.
extract_server_name(body) ==
    IF ~body.json THEN None
    ELSE IF body.server.kind # "absent"
         THEN IF body.server.kind = "string" THEN Some(body.server.text) ELSE None
    ELSE IF body.method.kind = "string" THEN Some(Head(body.method.segs))
    ELSE None

----------------------------------------------------------------------------
(* SSE events and streams *)

\* Event::default(): no event type, no id (0), no data.
Event_default == [event |-> "", id |-> 0, sessionId |-> 0, reply |-> 0, error |-> NoError]

\* Event::default().id(event_id.to_string()).data(json.trim_end())
DataEvent(event_id, reply) == [Event_default EXCEPT !.id = event_id, !.reply = reply]

\* Event::default().event("session").data({"sessionId": session_id})
SessionEvent(session_id) == [Event_default EXCEPT !.event = "session", !.sessionId = session_id]

\* Event::default().event("error").data(error_json)
ErrorEvent(error) == [Event_default EXCEPT !.event = "error", !.error = error]

\* json!(json_value.get("id")): the request's id, null when it has none.
JsonId(id) == IF id = "none" THEN "null" ELSE id

\* An error_json that reports every failure as an internal error.
sse_error_json_Uncategorised(result, id, server_name) ==
    [code |-> 0 - 32603, id |-> JsonId(id), type |-> "internal_error", server |-> server_name]

\* The responder's error_json: the category is read off the error text.
\* "Server not found: <name>" contains "not found"; an I/O error's text
\* holds none of the three words.
sse_error_json(result, id, server_name) ==
    IF result.kind = "NotFound"
    THEN [code |-> 0 - 32001, id |-> JsonId(id), type |-> "server_not_found", server |-> server_name]
    ELSE [code |-> 0 - 32603, id |-> JsonId(id), type |-> "internal_error", server |-> server_name]

\* The event a responder builds from the result of its route_message.
responder_event(task) ==
    IF task.result.kind = "Ok"
    THEN DataEvent(task.event_id, task.result.reply)
    ELSE ErrorEvent(sse_error_json(task.result, task.id, task.target))

\* The stream handle_post returns: once(init_event) chained before the
\* receiver of the POST's channel for initialize, the receiver alone else.
post_stream(is_initialize, session_id) ==
    [kind |-> "post", session |-> session_id,
     once |-> IF is_initialize THEN <<SessionEvent(session_id)>> ELSE <<>>,
     chan |-> <<>>, out |-> <<>>, replay |-> <<>>, after |-> 0 - 1, seen |-> 0,
     closed |-> FALSE]

\* A GET that replays only what no earlier GET of the session was given.
get_stream_OnlyNew(session_id, last_event_id, replay_messages) ==
    LET earlier == {x \in DOMAIN streams : streams[x].kind = "get"
                                             /\ streams[x].session = session_id}
        given == UNION {{streams[i].replay[j].event_id : j \in 1..Len(streams[i].replay)}
                           \cup {streams[i].chan[j].id : j \in 1..Len(streams[i].chan)}
                           \cup {streams[i].out[j].id : j \in 1..Len(streams[i].out)} :
                        i \in earlier}
        fresh(msg) == msg.event_id \notin given
    IN  [kind |-> "get", session |-> session_id, once |-> <<>>,
         chan |-> <<>>, out |-> <<>>, replay |-> SelectSeq(replay_messages, fresh),
         after |-> last_event_id,
         seen |-> IF last_event_id >= 0 THEN Len(emitted[session_id]) ELSE 0,
     closed |-> FALSE]

\* The stream handle_get returns: the receiver of a new channel, which the
\* spawned replay task fills from replay_messages.  seen is history, not
\* state of the program: how many messages the session had buffered in all
\* when the replay was taken (0 when none is taken).
get_stream(session_id, last_event_id, replay_messages) ==
    [kind |-> "get", session |-> session_id, once |-> <<>>,
     chan |-> <<>>, out |-> <<>>, replay |-> replay_messages, after |-> last_event_id,
     seen |-> IF last_event_id >= 0 THEN Len(emitted[session_id]) ELSE 0,
     closed |-> FALSE]

\* The event the replay task builds from a buffered message: its id, its
\* data, and its type if it has one.
replay_event(msg) ==
    [DataEvent(msg.event_id, msg.data) EXCEPT
        !.event = IF msg.event_type = "none" THEN "" ELSE msg.event_type]

\* A chain that polls the channel before the once-stream.
poll_next_ChannelFirst(stream) ==
    IF stream.chan # <<>>
    THEN [stream EXCEPT !.chan = Tail(@), !.out = Append(@, Head(stream.chan))]
    ELSE [stream EXCEPT !.once = Tail(@), !.out = Append(@, Head(stream.once))]

\* StreamExt::chain: the first stream until it ends, then the second.
poll_next(stream) ==
    IF stream.once # <<>>
    THEN [stream EXCEPT !.once = Tail(@), !.out = Append(@, Head(stream.once))]
    ELSE [stream EXCEPT !.chan = Tail(@), !.out = Append(@, Head(stream.chan))]

\* The HTTP response body takes the next event of stream i.
StreamPoll(i) ==
    /\ i \in DOMAIN streams
    /\ ~streams[i].closed
    /\ streams[i].once # <<>> \/ streams[i].chan # <<>>
    /\ streams' = [streams EXCEPT ![i] = poll_next(@)]
    /\ UNCHANGED <<servers, restart_counts, lock, tasks, starts, calls, sessions, created,
                   emitted, now, response, requested, request, hub, conns, daemon, mutexes>>

\* A ClientDisconnect that also cancels the responder of the stream, as a
\* dropped handler future is cancelled.
ClientDisconnect_CancelsResponder(i) ==
    /\ i \in DOMAIN streams
    /\ ~streams[i].closed
    /\ streams' = [streams EXCEPT ![i].closed = TRUE]
    /\ tasks' = [t \in Tasks |->
                   IF tasks[t].kind = "sse" /\ tasks[t].stream = i THEN IdleTask ELSE tasks[t]]
    /\ lock' = IF lock # 0 /\ tasks[lock].kind = "sse" /\ tasks[lock].stream = i THEN 0 ELSE lock
    /\ UNCHANGED <<servers, restart_counts, starts, calls, sessions, created,
                   emitted, now, response, requested, request, hub, conns, daemon, mutexes>>

\* The client of stream i disconnects: the response body, and with it the
\* receiver of the channel, is dropped.  What the channel held is lost; the
\* spawned tasks that hold its senders go on.
ClientDisconnect(i) ==
    /\ i \in DOMAIN streams
    /\ ~streams[i].closed
    /\ streams' = [streams EXCEPT ![i].closed = TRUE]
    /\ UNCHANGED <<servers, restart_counts, lock, tasks, starts, calls, sessions, created,
                   emitted, now, response, requested, request, hub, conns, daemon, mutexes>>

\* The replay task of a GET: the next buffered message, as an event with
\* its id and its type if it has one, into the GET's channel.
ReplaySend(i) ==
    /\ i \in DOMAIN streams
    /\ streams[i].replay # <<>>
    /\ LET event == replay_event(Head(streams[i].replay))
       IN  streams' = IF streams[i].closed
                      THEN \* tx.send(..).is_err(): break
                           [streams EXCEPT ![i].replay = <<>>]
                      ELSE [streams EXCEPT ![i].replay = Tail(@), ![i].chan = Append(@, event)]
    /\ UNCHANGED <<servers, restart_counts, lock, tasks, starts, calls, sessions, created,
                   emitted, now, response, requested, request, hub, conns, daemon, mutexes>>

----------------------------------------------------------------------------
(* handle_post *)

Rejected(status) ==
    [status |-> status, path |-> "reject", creates |-> FALSE, session |-> 0, name |-> ""]

\* A session lookup with the two error statuses exchanged.
session_status_Swapped(is_initialize, headers) ==
    IF is_initialize THEN 0
    ELSE IF headers.session # 0
         THEN IF Has(sessions, headers.session) THEN 0 ELSE 400
    ELSE 404

\* Step 4 of handle_post, "get or create session": 0 when there is a session
\* to go on with, else the status of the Err.
session_status(is_initialize, headers) ==
    IF is_initialize THEN 0
    ELSE IF headers.session # 0
         THEN IF Has(sessions, headers.session) THEN 0 ELSE 404
    ELSE 400

\* What handle_post decides, in the order of its steps: Origin, protocol
\* version, JSON, session, server name, response mode.  An initialize has
\* inserted its session when the server name is looked for.
post_outcome(headers, body) ==
    LET method == method_of(body)
        is_initialize == method = <<"initialize">>
        use_streaming == needs_streaming(method)
        server_name == extract_server_name(body)
    IN  IF validate_origin(headers) # 0 THEN Rejected(validate_origin(headers))
        ELSE IF ~version_supported(headers) THEN Rejected(400)
        ELSE IF ~body.json THEN Rejected(400)
        ELSE IF session_status(is_initialize, headers) # 0
             THEN Rejected(session_status(is_initialize, headers))
        ELSE IF ~server_name.some THEN [Rejected(400) EXCEPT !.creates = is_initialize]
        ELSE [status |-> 200,
              path |-> IF use_streaming THEN "sse" ELSE "json",
              creates |-> is_initialize,
              session |-> IF is_initialize THEN created + 1 ELSE headers.session,
              name |-> server_name.name]

\* A request that bears the id of an existing session and is accepted.
\* The session an initialize creates is requested when it is created.
Requested(outcome, headers) ==
    IF outcome.status = 200 /\ outcome.creates
    THEN [requested EXCEPT ![outcome.session] = now]
    ELSE IF outcome.status = 200 /\ Has(sessions, headers.session)
    THEN [requested EXCEPT ![headers.session] = now]
    ELSE requested

\* The responder spawned for a streaming POST on session sid.
NewResponder(sid, event_id, n) ==
    [NewCaller("sse", n) EXCEPT !.session = sid, !.event_id = event_id]

\* handle_post.  Everything from sessions.lock() to drop(sessions) runs
\* without an await, so the handler up to its route_message (direct JSON)
\* or up to the spawn of its responder (SSE) is one step; the route_message
\* then goes like that of any other caller.
handle_post(t, headers, body) ==
    LET outcome == post_outcome(headers, body)
        is_initialize == method_of(body) = <<"initialize">>
        stored == IF outcome.creates
                  THEN Insert(sessions, created + 1, HttpSession_new)
                  ELSE sessions
    IN  /\ outcome.path # "reject" => NextSlot(t)
        /\ outcome.creates => created < MaxSessions
        /\ created' = IF outcome.creates THEN created + 1 ELSE created
        /\ requested' = Requested(outcome, headers)
        /\ IF outcome.path = "reject" THEN
                /\ sessions' = stored
                /\ response' = [NoResponse EXCEPT !.status = outcome.status]
                /\ UNCHANGED <<tasks, calls, streams>>
           ELSE IF outcome.path = "json" THEN
                \* the session is looked up and cloned; the store is left as it is
                /\ NextSlot(t)
                /\ sessions' = stored
                /\ tasks' = [tasks EXCEPT ![t] =
                      [NewCaller("direct", outcome.name) EXCEPT
                          !.session = outcome.session, !.id = body.id]]
                /\ calls' = calls + 1
                /\ UNCHANGED <<response, streams>>
           ELSE
                \* touch, next_event_id, the channel, the responder, the stream
                /\ NextSlot(t)
                /\ Len(streams) < MaxStreams
                /\ LET session == next_event_id(touch(stored[outcome.session]))
                   IN  /\ sessions' = [stored EXCEPT ![outcome.session] = session]
                       /\ tasks' = [tasks EXCEPT ![t] =
                             [NewResponder(outcome.session, session.last_event_id, outcome.name)
                                 EXCEPT !.id = body.id, !.stream = Len(streams) + 1]]
                /\ streams' = Append(streams, post_stream(is_initialize, outcome.session))
                /\ response' = [NoResponse EXCEPT !.status = 200, !.content = "sse"]
                /\ calls' = calls + 1
        /\ UNCHANGED <<servers, restart_counts, lock, starts, emitted, now, request, hub, conns, daemon, mutexes>>

\* Headers of a client that sends neither Origin nor a protocol version.
PlainHeaders(sid) ==
    [origin |-> <<>>, version |-> "", session |-> sid, last_event_id |-> 0 - 1]

\* A JSON-RPC request for child n, without an id.
RequestFor(method, n) ==
    [json |-> TRUE, method |-> MethodString(method), server |-> JsonString(n), id |-> "none"]

\* POST initialize: a new session under a fresh id, its first event id.
PostInitialize(t, n) ==
    handle_post(t, PlainHeaders(0), RequestFor(<<"initialize">>, n))

\* POST of another streaming method with mcp-session-id naming sid.
PostStream(t, sid, n) ==
    /\ Has(sessions, sid)
    /\ handle_post(t, PlainHeaders(sid), RequestFor(<<"sampling", "createMessage">>, n))

\* POST of a method answered with direct JSON, mcp-session-id naming sid.
PostJson(t, sid, n) ==
    /\ Has(sessions, sid)
    /\ handle_post(t, PlainHeaders(sid), RequestFor(<<"tools", "list">>, n))

\* A direct-path error body with the categories of the SSE path.
routing_error_json_Categorised(result, id, server_name) ==
    sse_error_json(result, id, server_name)

\* The direct path's error_json.
routing_error_json(result, id, server_name) ==
    [code |-> 0 - 32603, id |-> JsonId(id), type |-> "routing_error", server |-> server_name]

\* A direct path that trims the reply as the SSE path's json.trim_end() does.
json_response_Trimmed(task) ==
    IF task.result.kind = "Ok"
    THEN [NoResponse EXCEPT !.status = 200, !.content = "json",
                            !.reply = IF task.result.reply = 0 THEN <<>>
                                      ELSE <<task.result.reply>>]
    ELSE [NoResponse EXCEPT !.status = 200, !.content = "json",
                            !.error = routing_error_json(task.result, task.id, task.target)]

\* The direct path after route_message: 200 with Body::from(response), the
\* bytes route_message returned, or 200 with the JSON-RPC error object.
json_response(task) ==
    IF task.result.kind = "Ok"
    THEN [NoResponse EXCEPT !.status = 200, !.content = "json",
                            !.reply = response_bytes(task.result)]
    ELSE [NoResponse EXCEPT !.status = 200, !.content = "json",
                            !.error = routing_error_json(task.result, task.id, task.target)]

\* The direct-JSON handler returns its response.
JsonReturn(t) ==
    /\ tasks[t].kind = "direct"
    /\ tasks[t].pc = "routed"
    /\ response' = json_response(tasks[t])
    /\ tasks' = [tasks EXCEPT ![t] = IdleTask]
    /\ UNCHANGED <<servers, restart_counts, lock, starts, calls, sessions, created, emitted,
                   now, streams, requested, request, hub, conns, daemon, mutexes>>

\* The responder after route_message: on a reply it builds the data event
\* with its event id and buffers it in the session, if that still exists;
\* on an error it builds an error event, which is not buffered.
ResponderBuffer(t) ==
    /\ tasks[t].kind = "sse"
    /\ tasks[t].pc = "routed"
    /\ LET sid == tasks[t].session IN
         IF tasks[t].result.kind = "Ok"
         THEN /\ sessions' =
                   IF Has(sessions, sid)
                   THEN [sessions EXCEPT ![sid] =
                           buffer_message(@, tasks[t].event_id, "none", tasks[t].result.reply)]
                   ELSE sessions
              /\ emitted' = [emitted EXCEPT ![sid] = Append(@, tasks[t].event_id)]
         ELSE UNCHANGED <<sessions, emitted>>
    /\ tasks' = [tasks EXCEPT ![t].pc = "send"]
    /\ UNCHANGED <<servers, restart_counts, lock, starts, calls, created,
                   now, response, streams, requested, request, hub, conns, daemon, mutexes>>

\* tx.send(Ok(event)).await on the POST's own channel, which ends the task.
ResponderSend(t) ==
    /\ tasks[t].kind = "sse"
    /\ tasks[t].pc = "send"
    /\ streams' = IF streams[tasks[t].stream].closed
                   THEN \* the receiver is gone: send returns Err, which let _ drops
                        streams
                   ELSE [streams EXCEPT ![tasks[t].stream].chan =
                            Append(@, responder_event(tasks[t]))]
    /\ tasks' = [tasks EXCEPT ![t] = IdleTask]
    /\ UNCHANGED <<servers, restart_counts, lock, starts, calls, sessions, created, emitted,
                   now, response, requested, request, hub, conns, daemon, mutexes>>

----------------------------------------------------------------------------
(* handle_get *)

\* headers.get("last-event-id") parsed as u64; None is -1.
get_outcome(headers) ==
    IF validate_origin(headers) # 0 THEN validate_origin(headers)
    ELSE IF headers.session = 0 THEN 400
    ELSE IF ~Has(sessions, headers.session) THEN 404
    ELSE 200

handle_get(headers) ==
    LET status == get_outcome(headers)
        sid == headers.session
    IN  IF status # 200
        THEN /\ response' = [NoResponse EXCEPT !.status = status]
             /\ UNCHANGED <<servers, restart_counts, lock, tasks, starts, calls, sessions,
                            created, emitted, now, streams, requested, request, hub, conns, daemon, mutexes>>
        ELSE /\ Len(streams) < MaxStreams
             /\ sessions' = [sessions EXCEPT ![sid] = touch(@)]
             /\ streams' = Append(streams,
                   get_stream(sid, headers.last_event_id,
                       IF headers.last_event_id >= 0
                       THEN get_messages_after(sessions[sid], headers.last_event_id)
                       ELSE <<>>))
             /\ response' = [NoResponse EXCEPT !.status = 200, !.content = "sse"]
             /\ requested' = [requested EXCEPT ![sid] = now]
             /\ UNCHANGED <<servers, restart_counts, lock, tasks, starts, calls,
                            created, emitted, now, request, hub, conns, daemon, mutexes>>

\* GET with mcp-session-id sid and last-event-id k.
Get(sid, k) ==
    handle_get([PlainHeaders(sid) EXCEPT !.last_event_id = k])

----------------------------------------------------------------------------
(* The session clock and session_cleanup_task *)

\* A second passes.
Tick ==
    /\ now < MaxTime
    /\ now' = now + 1
    /\ UNCHANGED <<servers, restart_counts, lock, tasks, starts, calls, sessions, created,
                   emitted, response, streams, requested, request, hub, conns, daemon, mutexes>>

\* One round of session_cleanup_task: collect the expired ids, remove them.
SessionSweep ==
    /\ sessions' = [s \in {x \in DOMAIN sessions : ~is_expired(sessions[x], SessionTimeout)}
                      |-> sessions[s]]
    /\ UNCHANGED <<servers, restart_counts, lock, tasks, starts, calls, created,
                   emitted, now, response, streams, requested, request, hub, conns, daemon, mutexes>>

----------------------------------------------------------------------------
(* The specifications of the HTTP transport *)

\* A session on which an initialize and further streaming POSTs were
\* answered one after the other, k in all, the session created at second 0.
Prefilled(k) ==
    [last_activity |-> 0,
     last_event_id |-> k,
     message_buffer |-> [i \in 1..k |-> BufferedMessage(i, "none", 0 - i)]]

\* The store when the run begins: empty, as HttpTransport::start leaves it,
\* or holding a session with one slot of its buffer left.
InitHttp ==
    /\ InitSup
    /\ InitIdle
    /\ \/ /\ sessions = EmptyMap
          /\ created = 0
          /\ emitted = [s \in SessionIds |-> <<>>]
       \/ /\ servers # EmptyMap
          /\ sessions = [s \in {1} |-> Prefilled(MAX_BUFFER_SIZE - 1)]
          /\ created = 1
          /\ emitted = [s \in SessionIds |->
                          IF s = 1 THEN [i \in 1..(MAX_BUFFER_SIZE - 1) |-> i] ELSE <<>>]

NextHttp ==
    \/ \E t \in Tasks, n \in Names : PostInitialize(t, n)
    \/ \E t \in Tasks, sid \in SessionIds, n \in Names : PostStream(t, sid, n)
    \/ \E t \in Tasks : RouteLock(t)
    \/ \E t \in Tasks : RouteRead(t)
    \/ \E n \in Names : ChildReply(n)
    \/ \E n \in Names : ChildExit(n)
    \/ \E t \in Tasks : ResponderBuffer(t)
    \/ \E t \in Tasks : ResponderSend(t)

HttpSpec == InitHttp /\ [][NextHttp]_vars

\* The values a last-event-id header takes: none, or an event id.
LastEventIds == (0 - 1)..MaxCalls

NextSse ==
    \/ \E t \in Tasks, n \in Names : PostInitialize(t, n)
    \/ \E t \in Tasks, sid \in SessionIds, n \in Names : PostStream(t, sid, n)
    \/ \E t \in Tasks : RouteLock(t)
    \/ \E t \in Tasks : RouteRead(t)
    \/ \E n \in Names : ChildReply(n)
    \/ \E t \in Tasks : ResponderBuffer(t)
    \/ \E t \in Tasks : ResponderSend(t)
    \/ \E i \in 1..MaxStreams : StreamPoll(i)

SseSpec == Init /\ [][NextSse]_vars

\* POST of a direct-JSON method under a session id the store does not hold.
PostUnknown(t, sid) ==
    /\ ~Has(sessions, sid)
    /\ handle_post(t, PlainHeaders(sid), RequestFor(<<"tools", "list">>, configs[1]))

\* The sweeper alone with the requests that create, touch and look up
\* sessions; the calls the POSTs start are left where they begin.
NextSweep ==
    \/ \E t \in Tasks : PostInitialize(t, configs[1])
    \/ \E t \in Tasks, sid \in SessionIds : PostStream(t, sid, configs[1])
    \/ \E t \in Tasks, sid \in SessionIds : PostUnknown(t, sid)
    \/ \E sid \in SessionIds : Get(sid, 0 - 1)
    \/ Tick
    \/ SessionSweep

SweepSpec == Init /\ [][NextSweep]_vars

\* Streaming POSTs whose clients may disconnect, beside callers on the
\* local socket.  The scheduler runs every spawned task and every child
\* that has a request to answer.  What the clients take from the streams
\* before they leave is left to SseSpec.
NextDisconnect ==
    \/ \E t \in Tasks, n \in Names : PostInitialize(t, n)
    \/ \E t \in Tasks, n \in Names : Call(t, "local", n)
    \/ \E t \in Tasks : RouteLock(t)
    \/ \E t \in Tasks : RouteRead(t)
    \/ \E t \in Tasks : Return(t)
    \/ \E n \in Names : ChildReply(n)
    \/ \E t \in Tasks : ResponderBuffer(t)
    \/ \E t \in Tasks : ResponderSend(t)
    \/ \E i \in 1..MaxStreams : ClientDisconnect(i)

DisconnectSpec ==
    /\ Init
    /\ [][NextDisconnect]_vars
    /\ \A t \in Tasks : WF_vars(RouteLock(t))
    /\ \A t \in Tasks : WF_vars(RouteRead(t))
    /\ \A n \in Names : WF_vars(ChildReply(n))
    /\ \A t \in Tasks : WF_vars(ResponderBuffer(t))
    /\ \A t \in Tasks : WF_vars(ResponderSend(t))

\* The streaming POSTs together with GETs that resume.
NextReplay ==
    \/ NextSse
    \/ \E sid \in SessionIds, k \in LastEventIds : Get(sid, k)
    \/ \E i \in 1..MaxStreams : ReplaySend(i)

ReplaySpec == Init /\ [][NextReplay]_vars

\* Resumption: a session with two buffered events, streaming POSTs for the
\* first child that buffer further ones, and GETs with their replay tasks.
\* What the clients take from the streams is left to SseSpec.
InitResume ==
    /\ InitSup
    /\ InitIdle
    /\ sessions = [s \in {1} |-> Prefilled(2)]
    /\ created = 1
    /\ emitted = [s \in SessionIds |-> IF s = 1 THEN <<1, 2>> ELSE <<>>]

NextResume ==
    \/ \E t \in Tasks, sid \in SessionIds : PostStream(t, sid, configs[1])
    \/ \E sid \in SessionIds, k \in LastEventIds : Get(sid, k)
    \/ \E t \in Tasks : RouteLock(t)
    \/ \E t \in Tasks : RouteRead(t)
    \/ \E n \in Names : ChildReply(n)
    \/ \E t \in Tasks : ResponderBuffer(t)
    \/ \E t \in Tasks : ResponderSend(t)
    \/ \E i \in 1..MaxStreams : ReplaySend(i)

ResumeSpec == InitResume /\ [][NextResume]_vars

NextExpiry ==
    \/ \E t \in Tasks, n \in Names : PostInitialize(t, n)
    \/ \E t \in Tasks, sid \in SessionIds, n \in Names : PostJson(t, sid, n)
    \/ \E sid \in SessionIds : Get(sid, 0 - 1)
    \/ \E t \in Tasks : RouteLock(t)
    \/ \E t \in Tasks : RouteRead(t)
    \/ \E n \in Names : ChildReply(n)
    \/ \E t \in Tasks : JsonReturn(t)
    \/ \E t \in Tasks : ResponderBuffer(t)
    \/ \E t \in Tasks : ResponderSend(t)
    \/ Tick
    \/ SessionSweep

ExpirySpec == Init /\ [][NextExpiry]_vars

----------------------------------------------------------------------------
(* handle_post and handle_get on a request drawn when the run begins *)

Origins ==
    {<<>>, <<"null">>, <<"http://", "localhost", ":3000">>, <<"http://", "127.0.0.1", ":8080">>,
     <<"https://", "evil.example.com">>, <<"evil.example.com">>}

Versions == {"", "2025-06-18", "1999-01-01"}

MethodStrings ==
    {<<"initialize">>, <<"initialized">>, <<"sampling", "createMessage">>,
     <<"roots", "list_changed">>, <<"notifications", "cancelled">>,
     <<"notifications", "progress">>, <<"notifications", "initialized">>,
     <<"tools", "list">>, <<"tools", "call">>, <<"alpha", "tools", "list">>, <<"">>}

Methods == {MethodAbsent, MethodOther} \cup {MethodString(m) : m \in MethodStrings}

ServerMembers == {JsonAbsent, JsonOther, JsonString("alpha"), JsonString("beta")}

\* A body that is not JSON.
GarbageBody == NoRequest.body

\* Requests with an id are those of tools/list and sampling/createMessage,
\* notifications and the others come without one.
Bodies ==
    {GarbageBody} \cup
    {b \in [json : {TRUE}, method : Methods, server : ServerMembers, id : {"none", "7"}] :
        b.id = "none" \/ b.method.segs \in {<<"tools", "list">>, <<"sampling", "createMessage">>}}

Headers ==
    [origin : Origins, version : Versions, session : 0..MaxSessions, last_event_id : {0 - 1}]

\* Every body under plain headers, and every header with three of the bodies.
Requests ==
    {r \in [headers : Headers, body : Bodies] :
        \/ r.headers.origin = <<>> /\ r.headers.version = ""
        \/ r.body \in {GarbageBody, RequestFor(<<"initialize">>, "alpha"),
                       RequestFor(<<"tools", "list">>, "alpha")}}

\* The store is empty, or a second ago an initialize created a session and
\* its reply was delivered.
InitPost ==
    /\ InitSup
    /\ request \in Requests
    /\ response = NoResponse
    /\ streams = <<>>
    /\ requested = [s \in SessionIds |-> 0]
    /\ \/ /\ sessions = EmptyMap
          /\ created = 0
          /\ emitted = [s \in SessionIds |-> <<>>]
          /\ now = 0
       \/ /\ sessions = [s \in {1} |-> Prefilled(1)]
          /\ created = 1
          /\ emitted = [s \in SessionIds |-> IF s = 1 THEN <<1>> ELSE <<>>]
          /\ now = 1

HandlePost(t) == handle_post(t, request.headers, request.body)

HandleGet == handle_get(request.headers)

NextPost ==
    \/ \E t \in Tasks : HandlePost(t)
    \/ HandleGet
    \/ \E t \in Tasks : RouteLock(t)
    \/ \E t \in Tasks : RouteRead(t)
    \/ \E n \in Names : ChildReply(n)
    \/ \E n \in Names : ChildExit(n)
    \/ \E t \in Tasks : JsonReturn(t)
    \/ \E t \in Tasks : ResponderBuffer(t)
    \/ \E t \in Tasks : ResponderSend(t)

PostSpec == InitPost /\ [][NextPost]_vars

----------------------------------------------------------------------------
(* start_hub from its select! on *)

\* shutdown_signal() completes: Ctrl+C or SIGTERM.
ShutdownSignal ==
    /\ hub.phase = "running"
    /\ ~hub.signal
    /\ hub' = [hub EXCEPT !.signal = TRUE]
    /\ UNCHANGED <<servers, restart_counts, lock, tasks, starts, calls, httpVars, conns, daemon, mutexes>>

\* HubRouter::start returns: its bind or its chmod failed (the accept loop
\* itself never returns).
RouterTaskEnds ==
    /\ hub.phase = "running"
    /\ hub.router_task = "running"
    /\ hub' = [hub EXCEPT !.router_task = "ended"]
    /\ UNCHANGED <<servers, restart_counts, lock, tasks, starts, calls, httpVars, conns, daemon, mutexes>>

\* HttpTransport::start returns: its bind failed or axum::serve ended.
HttpTaskEnds ==
    /\ hub.phase = "running"
    /\ hub.http_task = "running"
    /\ hub' = [hub EXCEPT !.http_task = "ended"]
    /\ UNCHANGED <<servers, restart_counts, lock, tasks, starts, calls, httpVars, conns, daemon, mutexes>>

\* select! returns when one of its arms has completed.
SelectCompletes ==
    hub.router_task = "ended" \/ hub.http_task = "ended" \/ hub.signal

\* After the select!: the graceful shutdown begins.
BeginShutdown ==
    /\ hub.phase = "running"
    /\ SelectCompletes
    /\ hub' = [hub EXCEPT !.phase = "stopping"]
    /\ UNCHANGED <<servers, restart_counts, lock, tasks, starts, calls, httpVars, conns, daemon, mutexes>>

\* stop_all under the servers mutex, then the files are removed and the
\* process exits.
StopAll ==
    /\ hub.phase = "stopping"
    /\ lock = 0
    /\ servers' = [n \in DOMAIN servers |-> [servers[n] EXCEPT !.exited = TRUE, !.stdin = <<>>]]
    /\ hub' = [hub EXCEPT !.phase = "stopped"]
    /\ UNCHANGED <<restart_counts, lock, tasks, starts, calls, httpVars, conns, daemon, mutexes>>

NextHub ==
    \/ /\ hub.phase # "stopped"
       /\ \/ \E t \in Tasks, n \in Names : Call(t, "local", n)
          \/ \E t \in Tasks : RouteLock(t)
          \/ \E t \in Tasks : RouteRead(t)
          \/ \E t \in Tasks : Return(t)
          \/ \E n \in Names : ChildReply(n)
          \/ \E n \in Names : ChildExit(n)
    \/ ShutdownSignal
    \/ RouterTaskEnds
    \/ HttpTaskEnds
    \/ BeginShutdown
    \/ StopAll

HubSpec == Init /\ [][NextHub]_vars

\* The hub with children that may stop answering, under the scheduler's
\* fairness: a task that can run is run, start_hub goes on after its
\* select! and gets the servers mutex once it is free for good, and a
\* child that answers does answer.
NextShutdown ==
    \/ /\ hub.phase # "stopped"
       /\ \/ \E t \in Tasks, n \in Names : Call(t, "local", n)
          \/ \E t \in Tasks : RouteLock(t)
          \/ \E t \in Tasks : RouteRead(t)
          \/ \E t \in Tasks : Return(t)
          \/ \E n \in Names : ChildReply(n)
          \/ \E n \in Names : ChildExit(n)
          \/ \E n \in Names : ChildHang(n)
    \/ ShutdownSignal
    \/ RouterTaskEnds
    \/ HttpTaskEnds
    \/ BeginShutdown
    \/ StopAll

ShutdownSpec ==
    /\ Init
    /\ [][NextShutdown]_vars
    /\ WF_vars(BeginShutdown)
    /\ WF_vars(StopAll)
    /\ \A t \in Tasks :
          /\ WF_vars(hub.phase # "stopped" /\ RouteLock(t))
          /\ WF_vars(hub.phase # "stopped" /\ RouteRead(t))
          /\ WF_vars(hub.phase # "stopped" /\ Return(t))
    /\ \A n \in Names : WF_vars(hub.phase # "stopped" /\ ChildReply(n))

----------------------------------------------------------------------------
(* Properties of the supervisor *)

\* A send_receive is in progress from its write to the return of its read.
InProgress(n) == {t \in Tasks : tasks[t].pc = "read" /\ tasks[t].target = n}

\* C1: at every instant at most one send_receive is in progress against
\* any child of the live map, whatever the interleaving of route_message
\* callers and health ticks.
C1_OneSendReceivePerChild ==
    \A n \in DOMAIN servers : Cardinality(InProgress(n)) <= 1

\* C1 witness: a send_receive is in progress against a child while another
\* caller for the same child waits.
C1_Witness ==
    \E t, u \in Tasks :
        /\ tasks[t].pc = "read"
        /\ tasks[u].pc = "lock"
        /\ tasks[u].target = tasks[t].target

\* C2: every route_message that returns a reply line returns the reply to
\* its own request (the Nth reply goes to the Nth requester).
C2_ReplyGoesToItsRequester ==
    \A t \in Tasks :
        (tasks[t].pc = "routed" /\ tasks[t].result.kind = "Ok" /\ tasks[t].result.reply # 0)
            => tasks[t].result.reply = tasks[t].req

\* C4: restart_count never exceeds MAX_RESTARTS.
C4_RestartCountBounded ==
    \A n \in DOMAIN restart_counts : restart_counts[n] <= MAX_RESTARTS

\* C4 witness: a count has reached the cap.
C4_Witness ==
    \E n \in DOMAIN restart_counts : restart_counts[n] = MAX_RESTARTS

\* C5: a health tick that finds a child of the map exited with uptime < 5 s
\* leaves it out of the map, starts nothing for it and leaves its
\* restart_count as it was.
C5_FastCrashRemovedNotRetried ==
    [][\A n \in DOMAIN servers :
          (servers[n].exited /\ servers[n].uptime < IMMEDIATE_CRASH_SECS) =>
              \A ok \in [Names -> BOOLEAN] : HealthCheck(ok) =>
                  /\ ~Has(servers', n)
                  /\ starts'[n] = 0
                  /\ CountOf(restart_counts', n) = CountOf(restart_counts, n)]_vars

\* C5 witness: a name removed by a tick below the cap; the tick left its
\* count entry behind, which a failed initial start never creates.
C5_Witness ==
    \E n \in Names :
        /\ ~Has(servers, n)
        /\ Has(restart_counts, n)
        /\ restart_counts[n] < MAX_RESTARTS

\* C6: a name absent from the live map stays absent in every step, and a
\* route_message for it returns NotFound.
C6_AbsentStaysAbsent ==
    [][\A n \in Names : ~Has(servers, n) =>
          /\ ~Has(servers', n)
          /\ \A t \in Tasks :
                (tasks[t].pc = "lock" /\ tasks[t].target = n /\ tasks'[t].pc # "lock"
                    /\ tasks'[t].pc # "idle")
                    => tasks'[t].result = NotFound]_vars

\* C6 witness: a call for a name that a health tick removed has returned
\* NotFound.
C6_Witness ==
    \E t \in Tasks :
        /\ tasks[t].pc = "routed"
        /\ tasks[t].result = NotFound
        /\ Has(restart_counts, tasks[t].target)
        /\ ~Has(servers, tasks[t].target)

\* C7: a health tick that finds a child of the map exited with uptime >= 5 s
\* and restart_count below the cap adds exactly 1 to the count and makes one
\* start; when the start succeeds the name maps to the fresh process.
C7_CrashRestarts ==
    [][\A n \in DOMAIN servers :
          (/\ servers[n].exited
           /\ servers[n].uptime >= IMMEDIATE_CRASH_SECS
           /\ CountOf(restart_counts, n) < MAX_RESTARTS) =>
              \A ok \in [Names -> BOOLEAN] : HealthCheck(ok) =>
                  /\ CountOf(restart_counts', n) = CountOf(restart_counts, n) + 1
                  /\ starts'[n] = 1
                  /\ ok[n] => (Has(servers', n) /\ servers'[n] = NewProcess)]_vars

\* C7 witness: a request is in flight at a process started by a restart
\* (a running process with a count above 0 is one a tick has just started,
\* and no tick runs while a send_receive holds the mutex).
C7_Witness ==
    \E t \in Tasks :
        /\ tasks[t].pc = "read"
        /\ Has(servers, tasks[t].target)
        /\ ~servers[tasks[t].target].exited
        /\ tasks[t].req \in {servers[tasks[t].target].stdin[i] :
                               i \in DOMAIN servers[tasks[t].target].stdin}
        /\ CountOf(restart_counts, tasks[t].target) >= 1

\* C23: when the start of a restart fails, the tick leaves the name out of
\* the live map, so that no handle of the dead process stays behind and a
\* route_message for the name returns NotFound.
C23_FailedRestartLeavesAbsent ==
    [][\A n \in DOMAIN servers :
          (/\ servers[n].exited
           /\ servers[n].uptime >= IMMEDIATE_CRASH_SECS
           /\ CountOf(restart_counts, n) < MAX_RESTARTS) =>
              \A ok \in [Names -> BOOLEAN] : (~ok[n] /\ HealthCheck(ok)) =>
                  ~Has(servers', n)]_vars

\* C24: a child that exited less than 5 s after its start is a fast crash
\* for the tick that observes it, however long after the exit that is: as
\* long as its handle waits in the map the verdict on it is "fast".
C24_FastCrashWhenObservedLate ==
    [][\A n \in DOMAIN servers :
          (/\ servers[n].exited
           /\ servers[n].uptime < IMMEDIATE_CRASH_SECS
           /\ Has(servers', n)
           /\ servers'[n].exited) =>
              HealthVerdict(n)' = "fast"]_vars

\* C25: restart_count is the number of restart attempts since the last tick
\* that observed the child alive (it grows by one with every start a tick
\* makes and falls only to 0, in a tick that finds the child alive); no
\* start is made at MAX_RESTARTS, where the tick that finds the child exited
\* removes it; and for a name out of the map the latest tick made no start,
\* nor does a later one.
C25_RestartWorkBounded ==
    /\ [](\A n \in Names : ~Has(servers, n) => starts[n] = 0)
    /\ [][\A n \in Names :
            /\ CountOf(restart_counts', n) > CountOf(restart_counts, n) =>
                  /\ CountOf(restart_counts', n) = CountOf(restart_counts, n) + 1
                  /\ CountOf(restart_counts', n) <= MAX_RESTARTS
                  /\ starts'[n] = 1
            /\ CountOf(restart_counts', n) < CountOf(restart_counts, n) =>
                  /\ Has(servers, n) /\ ~servers[n].exited
                  /\ CountOf(restart_counts', n) = 0
            /\ ~Has(servers, n) => ~Has(servers', n)
            /\ (Has(servers, n) /\ servers[n].exited /\ lock = 0) =>
                  \A ok \in [Names -> BOOLEAN] : HealthCheck(ok) =>
                      /\ starts'[n] = 1 =>
                            /\ CountOf(restart_counts, n) < MAX_RESTARTS
                            /\ CountOf(restart_counts', n) = CountOf(restart_counts, n) + 1
                      /\ CountOf(restart_counts, n) >= MAX_RESTARTS =>
                            (~Has(servers', n) /\ starts'[n] = 0)]_vars

\* C25 witness: the third attempt in a row has just been made and the
\* process it started is in the map.
C25_Witness ==
    \E n \in DOMAIN servers :
        /\ ~servers[n].exited
        /\ CountOf(restart_counts, n) = MAX_RESTARTS
        /\ starts[n] = 1

\* C26: a health tick that finds a child of the map exited with uptime
\* >= 5 s and restart_count >= MAX_RESTARTS removes it from the map, starts
\* nothing for it and leaves its restart_count as it was.
C26_GiveUpRemoves ==
    [][\A n \in DOMAIN servers :
          (/\ servers[n].exited
           /\ servers[n].uptime >= IMMEDIATE_CRASH_SECS
           /\ CountOf(restart_counts, n) >= MAX_RESTARTS) =>
              \A ok \in [Names -> BOOLEAN] : HealthCheck(ok) =>
                  /\ ~Has(servers', n)
                  /\ starts'[n] = 0
                  /\ Has(restart_counts', n)
                  /\ restart_counts'[n] = restart_counts[n]]_vars

\* C26 witness: a child that ran 5 s or longer has exited with its count
\* at the cap, and no send_receive keeps the next tick waiting.
C26_Witness ==
    \E n \in DOMAIN servers :
        /\ servers[n].exited
        /\ servers[n].uptime >= IMMEDIATE_CRASH_SECS
        /\ CountOf(restart_counts, n) >= MAX_RESTARTS
        /\ lock = 0

\* C27: a health tick that finds a child of the map alive sets its
\* restart_count to 0 and leaves its entry of the map as it is; the names
\* the tick does not find in the map it leaves out of the map, with their
\* counters as they were.
C27_AliveResetsCount ==
    [][\A n \in DOMAIN servers :
          (~servers[n].exited /\ lock = 0 /\ UNCHANGED <<lock, tasks, calls>>) =>
          \A ok \in [Names -> BOOLEAN] : HealthCheck(ok) =>
              /\ Has(restart_counts', n)
              /\ restart_counts'[n] = 0
              /\ starts'[n] = 0
              /\ Has(servers', n)
              /\ servers'[n] = servers[n]
              /\ \A m \in Names \ DOMAIN servers :
                    /\ ~Has(servers', m)
                    /\ Has(restart_counts', m) = Has(restart_counts, m)
                    /\ CountOf(restart_counts', m) = CountOf(restart_counts, m)
              /\ \A m \in DOMAIN servers \ {n} : ~servers[m].exited =>
                    (Has(servers', m) /\ servers'[m] = servers[m])]_vars

\* C27 witness: a child was found alive (only that sets a count to 0 and
\* keeps the entry), the count of a child removed earlier being kept.
C27_Witness ==
    \E n \in DOMAIN servers, m \in Names \ DOMAIN servers :
        /\ ~servers[n].exited
        /\ Has(restart_counts, n)
        /\ restart_counts[n] = 0
        /\ Has(restart_counts, m)
        /\ restart_counts[m] >= 1

\* C29: every successful route_message result is one reply line that ends
\* with '\n'; at EOF of the child's stdout the call does not return a
\* successful empty or unterminated reply.
C29_ReplyIsOneTerminatedLine ==
    \A t \in Tasks :
        (tasks[t].pc = "routed" /\ tasks[t].result.kind = "Ok") =>
            LET line == response_bytes(tasks[t].result)
            IN  /\ Len(line) >= 1
                /\ line[Len(line)] = "\n"

\* C3: with a request in flight at a child that never replies, a call for
\* another child that stays in the map and keeps answering still returns.
C3_HungChildBlocksOnlyItself ==
    \A t \in Tasks, b \in Names :
        [](Has(servers, b) /\ ~servers[b].hung /\ ~servers[b].exited)
            => ((tasks[t].pc = "lock" /\ tasks[t].target = b) ~> (tasks[t].pc = "routed"))

----------------------------------------------------------------------------
(* Properties of the session layer *)

\* C8: on every session the event ids of the data events, in the order
\* the responders buffer and enqueue them, are strictly increasing (and so
\* none is emitted twice).
C8_EventIdsStrictlyIncrease ==
    \A s \in SessionIds :
        \A i, j \in DOMAIN emitted[s] : i < j => emitted[s][i] < emitted[s][j]

\* C9: every replay buffer is a suffix of its session's emitted events, in
\* emission order and ending at the latest one, with consecutive event ids.
C9_BufferIsContiguousSuffix ==
    \A s \in DOMAIN sessions :
        LET ids == BufferIds(sessions[s])
            k == Len(ids)
            e == emitted[s]
        IN  /\ k <= Len(e)
            /\ ids = [i \in 1..k |-> e[Len(e) - k + i]]
            /\ \A i \in 1..(k - 1) : ids[i + 1] = ids[i] + 1

\* C10: a replay buffer never holds more than MAX_BUFFER_SIZE messages, and
\* every change of a buffer is an append at the back that, when the buffer
\* was full, drops the message at the front.
C10_BufferBoundedDropsOldest ==
    /\ [](\A s \in DOMAIN sessions : Len(sessions[s].message_buffer) <= MAX_BUFFER_SIZE)
    /\ [][\A s \in DOMAIN sessions \cap DOMAIN sessions' :
            LET old == sessions[s].message_buffer
                new == sessions'[s].message_buffer
            IN  new # old =>
                  /\ Len(new) >= 1
                  /\ SubSeq(new, 1, Len(new) - 1) =
                        IF Len(old) = MAX_BUFFER_SIZE THEN Tail(old) ELSE old]_vars

\* C10 witness: a full buffer on a session that has emitted more events
\* than the buffer holds.
C10_Witness ==
    \E s \in DOMAIN sessions :
        /\ Len(sessions[s].message_buffer) = MAX_BUFFER_SIZE
        /\ Len(emitted[s]) > MAX_BUFFER_SIZE

----------------------------------------------------------------------------
(* Properties of the SSE streams *)

\* The event ids a stream has delivered, holds in its channel and has still
\* to replay, in the order the client gets them.
StreamIds(stream) ==
    [j \in 1..Len(stream.out) |-> stream.out[j].id]
        \o [j \in 1..Len(stream.chan) |-> stream.chan[j].id]
        \o [j \in 1..Len(stream.replay) |-> stream.replay[j].event_id]

\* The numbers of a finite set, smallest first.
RECURSIVE Ascending(_)
Ascending(S) ==
    IF S = {} THEN <<>>
    ELSE LET least == CHOOSE x \in S : \A y \in S : x <= y
         IN  <<least>> \o Ascending(S \ {least})

\* C11: a GET on session S with last-event-id k opens a stream that is given
\* exactly the buffered events of S with event_id > k, in increasing order of
\* event id, and that delivers them in that order and nothing before them.
C11_GetReplaysBufferedInOrder ==
    /\ [][\A i \in DOMAIN streams' \ DOMAIN streams :
            (streams'[i].kind = "get" /\ streams'[i].after >= 0) =>
                StreamIds(streams'[i]) =
                    Ascending({sessions[streams'[i].session].message_buffer[j].event_id :
                                 j \in DOMAIN sessions[streams'[i].session].message_buffer}
                              \cap {e \in 0..(MaxCalls + MAX_BUFFER_SIZE) : e > streams'[i].after})]_vars
    /\ [][\A i \in DOMAIN streams :
            streams[i].kind = "get" => StreamIds(streams'[i]) = StreamIds(streams[i])]_vars

\* Everything a stream gives its client: what it has delivered, what its
\* channel holds and what its replay task has still to send.
StreamEvents(stream) ==
    stream.out \o stream.chan
        \o [j \in 1..Len(stream.replay) |-> replay_event(stream.replay[j])]

\* C22: two GETs on the same session with the same last-event-id, no
\* message having been buffered between them, are given the same replay
\* sequence, and a GET leaves every replay buffer as it is.
C22_ReplayIdempotent ==
    /\ [](\A i, j \in DOMAIN streams :
            (/\ streams[i].kind = "get"
             /\ streams[j].kind = "get"
             /\ streams[i].session = streams[j].session
             /\ streams[i].after = streams[j].after
             /\ streams[i].seen = streams[j].seen) =>
                StreamEvents(streams[i]) = StreamEvents(streams[j]))
    /\ [][(/\ Len(streams') = Len(streams) + 1
           /\ streams'[Len(streams')].kind = "get") =>
              /\ DOMAIN sessions' = DOMAIN sessions
              /\ \A s \in DOMAIN sessions :
                    sessions'[s].message_buffer = sessions[s].message_buffer]_vars

\* C22 witness: two GETs with the same last-event-id on a session that
\* buffered a third event before them, each given two events, the replay
\* task of the first having sent both.
C22_Witness ==
    \E i, j \in DOMAIN streams :
        /\ i < j
        /\ streams[i].kind = "get"
        /\ streams[j].kind = "get"
        /\ streams[i].session = streams[j].session
        /\ streams[i].after = streams[j].after
        /\ streams[i].seen = 3
        /\ streams[j].seen = 3
        /\ Len(StreamEvents(streams[i])) = 2
        /\ Len(streams[i].chan) = 2

\* C15: on the stream of an initialize POST the data event with id 1, the
\* child's reply, comes after the session event of the new session, and a
\* session event is never delivered after another event.
C15_SessionEventFirst ==
    \A i \in DOMAIN streams :
        streams[i].kind = "post" =>
            \A j \in DOMAIN streams[i].out :
                /\ streams[i].out[j].event = "session" => j = 1
                /\ (streams[i].out[j].event = "" /\ streams[i].out[j].id = 1) =>
                      /\ j = 2
                      /\ streams[i].out[1] = SessionEvent(streams[i].session)

\* C15 witness: an initialize stream has delivered its session event and
\* then the reply of the child as event 1.
C15_Witness ==
    \E i \in DOMAIN streams :
        /\ Len(streams[i].out) = 2
        /\ streams[i].out[1].event = "session"
        /\ streams[i].out[2].id = 1
        /\ streams[i].out[2].reply >= 1

\* C17: every event delivered on a stream carries an id, an event id
\* allocated on the stream's session.
C17_EveryEventHasSessionEventId ==
    \A i \in DOMAIN streams :
        \A j \in DOMAIN streams[i].out :
            /\ streams[i].out[j].id >= 1
            /\ Has(sessions, streams[i].session) =>
                   streams[i].out[j].id <= sessions[streams[i].session].last_event_id

----------------------------------------------------------------------------
(* Properties of the session clock *)

\* C12: a request bearing the id of an existing session sets its
\* last_activity to the time of the request, so last_activity is never
\* older than the last such request, and the sweeper never removes a
\* session that had a request within the last session_timeout seconds.
C12_RequestsKeepSessionAlive ==
    /\ [](\A s \in DOMAIN sessions : sessions[s].last_activity >= requested[s])
    /\ [][\A s \in DOMAIN sessions :
            now - requested[s] <= SessionTimeout => Has(sessions', s)]_vars

----------------------------------------------------------------------------
(* Properties of handle_post and handle_get *)

\* The steps of handle_post before the session is looked for let the
\* request through.
ReachesSessionStep ==
    /\ validate_origin(request.headers) = 0
    /\ version_supported(request.headers)
    /\ request.body.json

IsInitialize == method_of(request.body) = <<"initialize">>

\* A step of handle_post on the request: it answers or starts a call.
PostStep(t) ==
    /\ calls' # calls \/ response' # response
    /\ HandlePost(t)

\* C13: at the session step of handle_post an initialize creates a session
\* under an id no session has; another method with the id of an existing
\* session goes on with that session and creates none; with an unknown id
\* it is answered 404, with no id 400, and the store stays as it is.
C13_SessionResolution ==
    [][\A t \in Tasks : (ReachesSessionStep /\ PostStep(t)) =>
          /\ IsInitialize =>
                /\ ~Has(sessions, created')
                /\ DOMAIN sessions' = DOMAIN sessions \cup {created'}
                /\ created' = created + 1
          /\ (~IsInitialize /\ Has(sessions, request.headers.session)) =>
                /\ DOMAIN sessions' = DOMAIN sessions
                /\ created' = created
                /\ tasks'[t] # tasks[t] => tasks'[t].session = request.headers.session
          /\ (~IsInitialize /\ request.headers.session # 0
                 /\ ~Has(sessions, request.headers.session)) =>
                /\ response'.status = 404
                /\ UNCHANGED <<sessions, created, tasks>>
          /\ (~IsInitialize /\ request.headers.session = 0) =>
                /\ response'.status = 400
                /\ UNCHANGED <<sessions, created, tasks>>]_vars

\* C13 witness: a POST of another method than initialize with an id that
\* names no session has been answered 404, a session being in the store.
C13_Witness ==
    /\ ReachesSessionStep
    /\ ~IsInitialize
    /\ request.headers.session # 0
    /\ ~Has(sessions, request.headers.session)
    /\ sessions # EmptyMap
    /\ response.status = 404

\* An Origin value that holds neither localhost nor 127.0.0.1 and is not null.
ForeignOrigin(value) ==
    /\ value # <<>>
    /\ ~Contains(value, "localhost")
    /\ ~Contains(value, "127.0.0.1")
    /\ value # <<"null">>

\* C14: a POST or GET with a foreign Origin header is answered 403 and
\* changes neither the sessions nor the callers nor any child; a request
\* without an Origin header is not answered 403.
C14_ForeignOriginForbidden ==
    [][((\E t \in Tasks : PostStep(t)) \/ HandleGet) =>
          /\ ForeignOrigin(request.headers.origin) =>
                /\ response'.status = 403
                /\ UNCHANGED <<sessions, created, tasks, servers, streams>>
          /\ request.headers.origin = <<>> => response'.status # 403]_vars

\* C18: a direct-JSON POST whose route_message failed is answered 200 with
\* the JSON-RPC error -32603, the id of the request (null when it has
\* none), data.type routing_error and data.server the extracted name.
C18_DirectRoutingError ==
    [][\A t \in Tasks :
          (/\ tasks[t].kind = "direct"
           /\ tasks[t].pc = "routed"
           /\ tasks[t].result.kind \in {"NotFound", "IoError"}
           /\ JsonReturn(t)) =>
              /\ response'.status = 200
              /\ response'.content = "json"
              /\ response'.error.code = 0 - 32603
              /\ response'.error.id = IF request.body.id = "none" THEN "null" ELSE request.body.id
              /\ response'.error.type = "routing_error"
              /\ response'.error.server = extract_server_name(request.body).name]_vars

\* C18 witness: a request with an id has been answered with the routing
\* error object.
C18_Witness ==
    /\ request.body.id = "7"
    /\ response.status = 200
    /\ response.error.type = "routing_error"
    /\ response.error.id = "7"

\* C19: needs_streaming holds exactly for the six methods, and a POST of
\* any other method (the empty one of a request without method included)
\* allocates no event id, opens no stream, and when it is let through is
\* answered by the direct JSON path.
C19_StreamingMethods ==
    /\ [](\A method \in MethodStrings :
            needs_streaming(method) <=>
                method \in {<<"initialize">>, <<"initialized">>, <<"sampling", "createMessage">>,
                            <<"roots", "list_changed">>, <<"notifications", "cancelled">>,
                            <<"notifications", "progress">>})
    /\ [][\A t \in Tasks :
            (/\ method_of(request.body) \notin
                    {<<"initialize">>, <<"initialized">>, <<"sampling", "createMessage">>,
                     <<"roots", "list_changed">>, <<"notifications", "cancelled">>,
                     <<"notifications", "progress">>}
             /\ PostStep(t)) =>
                /\ \A s \in DOMAIN sessions :
                      sessions'[s].last_event_id = sessions[s].last_event_id
                /\ DOMAIN sessions' = DOMAIN sessions
                /\ streams' = streams
                /\ response' # response => response'.content # "sse"
                /\ tasks'[t] # tasks[t] => tasks'[t].kind = "direct"]_vars

\* C19 witness: a request without a method member is on the direct path.
C19_Witness ==
    /\ request.body.json
    /\ request.body.method.kind = "absent"
    /\ \E t \in Tasks : tasks[t].kind = "direct" /\ tasks[t].pc = "read"

\* C20: for a message whose params.server is a string and whose method is
\* a string with a '/', the extracted name is params.server, and that is
\* the name every call made for the request is routed to.
C20_ParamsServerWins ==
    (/\ request.body.json
     /\ request.body.server.kind = "string"
     /\ request.body.method.kind = "string"
     /\ Len(request.body.method.segs) >= 2) =>
        /\ extract_server_name(request.body) = Some(request.body.server.text)
        /\ \A t \in Tasks : tasks[t].pc # "idle" => tasks[t].target = request.body.server.text

\* C20 witness: a request whose method prefix names one child and whose
\* params.server names the other is in flight at the latter.
C20_Witness ==
    /\ request.body.method.kind = "string"
    /\ Head(request.body.method.segs) = "alpha"
    /\ request.body.server = JsonString("beta")
    /\ \E t \in Tasks : tasks[t].pc = "read" /\ tasks[t].target = "beta"

\* C21: a direct-JSON POST whose route_message succeeded is answered 200
\* with exactly the bytes route_message returned as the body: the reply
\* line of the child, its trailing newline kept, for every request.
C21_DirectBodyIsReplyLine ==
    [][\A t \in Tasks :
          (/\ tasks[t].kind = "direct"
           /\ tasks[t].pc = "routed"
           /\ tasks[t].result.kind = "Ok"
           /\ JsonReturn(t)) =>
              /\ response'.status = 200
              /\ response'.content = "json"
              /\ response'.error = NoError
              /\ response'.reply = response_bytes(tasks[t].result)]_vars

\* C21 witness: a request with an id was answered with a reply line, its
\* newline at the end.
C21_Witness ==
    /\ request.body.id = "7"
    /\ response.status = 200
    /\ response.content = "json"
    /\ Len(response.reply) = 2
    /\ response.reply[2] = "\n"

\* C30: a POST whose message yields no server name is answered 400 and
\* leaves the session store as it was; an initialize among them creates no
\* session (the name is looked for before the session).
C30_NoNameLeavesStoreUnchanged ==
    [][\A t \in Tasks :
          (/\ ReachesSessionStep
           /\ ~extract_server_name(request.body).some
           /\ PostStep(t)) =>
              /\ response'.status = 400
              /\ sessions' = sessions
              /\ created' = created]_vars

----------------------------------------------------------------------------
(* Properties of the hub *)

\* C28: after a shutdown signal stop_all eventually stops every child of
\* the live map and returns, also with a request in flight at a child
\* that never replies.
C28_ShutdownStopsEveryChild ==
    hub.signal ~> (hub.phase = "stopped" /\ \A n \in DOMAIN servers : servers[n].exited)

\* C16: the hub leaves its running phase (stops its children and exits)
\* only after a shutdown signal.
C16_ShutdownOnlyOnSignal ==
    hub.phase # "running" => hub.signal

----------------------------------------------------------------------------
(* Properties of the name extraction *)

\* C31: extract_server_name equals the reference function: None for a
\* message that is not JSON; params.server when it is a string; otherwise,
\* also when params.server is there and is not a string, the part of a
\* string method before the first '/'; otherwise None.  Stated of the
\* request handle_post has acted on.
C31_ExtractEqualsReference ==
    LET body == request.body
        reference ==
            IF ~body.json THEN None
            ELSE IF body.server.kind = "string" THEN Some(body.server.text)
            ELSE IF body.method.kind = "string" THEN Some(Head(body.method.segs))
            ELSE None
    IN  (response # NoResponse \/ calls > 0) => extract_server_name(body) = reference

----------------------------------------------------------------------------
(* Properties of abandoned callers *)

\* The request lines and reply lines in a child's pipes.
InPipes(n) ==
    {servers[n].stdin[i] : i \in DOMAIN servers[n].stdin} \cup
    {servers[n].stdout[i] : i \in DOMAIN servers[n].stdout}

\* C38: when a caller was abandoned after its request was written and
\* before its reply was read (its line is still in the child's pipes), the
\* next route_message to that child reads the reply to its own request.
C38_AbandonedReplyNotDelivered ==
    [][\A t \in Tasks :
          (/\ tasks[t].pc = "read"
           /\ \E left \in InPipes(tasks[t].target) : left # tasks[t].req
           /\ RouteRead(t)
           /\ tasks'[t].result.reply # 0) =>
              tasks'[t].result.reply = tasks[t].req]_vars

----------------------------------------------------------------------------
(* Properties of the construction *)

\* C36: HubManager::new succeeds whatever its starts return.  Until a
\* health tick has recorded a child, the live map holds exactly the
\* configs whose start succeeded; a config whose start failed is never in
\* the map, and a route_message for it returns NotFound.
C36_FailedStartsOmitted ==
    /\ [](/\ restart_counts = EmptyMap =>
                DOMAIN servers = {n \in Names : hub.started[n]}
          /\ \A n \in Names : ~hub.started[n] => ~Has(servers, n))
    /\ [][\A t \in Tasks :
             (/\ tasks[t].pc = "lock"
              /\ ~hub.started[tasks[t].target]
              /\ RouteLock(t)) =>
                 tasks'[t].result = NotFound]_vars

\* C36 witness: every start of the construction failed, the hub runs with
\* an empty map, and a request for one of the configs returned NotFound.
C36_Witness ==
    /\ \A n \in Names : ~hub.started[n]
    /\ hub.phase = "running"
    /\ servers = EmptyMap
    /\ \E t \in Tasks : tasks[t].pc = "routed" /\ tasks[t].result = NotFound

----------------------------------------------------------------------------
(* Properties of the responder *)

\* C37: the responder of a streaming POST whose target is not in the live
\* map (route_message returned NotFound) puts exactly one event on the
\* POST's stream, of type error, whose JSON-RPC error has code -32001,
\* data.type server_not_found and the id of the request (null when it has
\* none); the stream holds no other error event.
C37_AbsentTargetOneErrorEvent ==
    [][\A t \in Tasks :
          (/\ tasks[t].kind = "sse"
           /\ tasks[t].pc = "send"
           /\ tasks[t].result = NotFound
           /\ ResponderSend(t)) =>
              LET stream == streams'[tasks[t].stream] IN
                  /\ Len(stream.chan) = 1
                  /\ stream.chan[1].event = "error"
                  /\ stream.chan[1].error.code = 0 - 32001
                  /\ stream.chan[1].error.type = "server_not_found"
                  /\ stream.chan[1].error.id =
                        IF request.body.id = "none" THEN "null" ELSE request.body.id
                  /\ \A i \in DOMAIN stream.once : stream.once[i].event # "error"
                  /\ \A i \in DOMAIN stream.out : stream.out[i].event # "error"
                  /\ tasks'[t].pc = "idle"]_vars

\* C37 witness: a sampling/createMessage request with id 7 for a child that
\* is not in the map has its server_not_found event on its stream.
C37_Witness ==
    /\ request.body.id = "7"
    /\ needs_streaming(method_of(request.body))
    /\ ~Has(servers, extract_server_name(request.body).name)
    /\ \E i \in DOMAIN streams :
          /\ streams[i].kind = "post"
          /\ Len(streams[i].chan) = 1
          /\ streams[i].chan[1].error.code = 0 - 32001
          /\ streams[i].chan[1].error.id = "7"

----------------------------------------------------------------------------
(* Properties of the expiry sweeper *)

\* The ids handed out so far.
CreatedIds == 1..created

\* C35: a run of the sweeper removes exactly the sessions whose
\* now - last_activity exceeds session_timeout and leaves the others as
\* they are; no step removes a session whose last_activity is within the
\* timeout; the id of a removed session stays out of the store and a POST
\* of another method than initialize or a GET that bears it is answered 404.
C35_SweepRemovesExactlyExpired ==
    /\ [][SessionSweep =>
             /\ DOMAIN sessions' =
                   {s \in DOMAIN sessions : ~(now - sessions[s].last_activity > SessionTimeout)}
             /\ \A s \in DOMAIN sessions' : sessions'[s] = sessions[s]]_vars
    /\ [][\A s \in DOMAIN sessions :
             now - sessions[s].last_activity <= SessionTimeout => Has(sessions', s)]_vars
    /\ [][\A s \in CreatedIds : ~Has(sessions, s) =>
             /\ ~Has(sessions', s)
             /\ (\E t \in Tasks : PostUnknown(t, s)) => response'.status = 404
             /\ Get(s, 0 - 1) => response'.status = 404]_vars

\* C35 witness: of two sessions the sweeper removed the one past the
\* timeout and kept the one at the timeout, and a request under the
\* removed id was answered 404.
C35_Witness ==
    /\ created = 2
    /\ ~Has(sessions, 1)
    /\ Has(sessions, 2)
    /\ now - sessions[2].last_activity = SessionTimeout
    /\ response.status = 404

----------------------------------------------------------------------------
(* Properties of a disconnecting SSE client *)

\* C34: a responder ends only by its send, whatever its client does.  When
\* the client of its stream has disconnected, the responder still runs
\* to that send: by then its send_receive is over (the reply line read,
\* the servers guard released), and the send that fails changes nothing:
\* no stream, no response, no other task, no child.  Every other call
\* still reads the reply to its own request.
C34_ResponderOutlivesClient ==
    /\ [][\A t \in Tasks :
             (tasks[t].kind = "sse" /\ tasks[t].pc # "send") =>
                 (tasks'[t].kind = "sse" /\ tasks'[t].stream = tasks[t].stream)]_vars
    /\ [][\A t \in Tasks :
             (/\ tasks[t].kind = "sse"
              /\ tasks[t].pc = "send"
              /\ streams[tasks[t].stream].closed
              /\ ResponderSend(t)) =>
                 /\ lock # t
                 /\ tasks[t].result.kind = "Ok" =>
                        /\ tasks[t].result.reply = tasks[t].req
                        /\ tasks[t].req \notin InPipes(tasks[t].target)
                 /\ tasks'[t] = IdleTask
                 /\ \A u \in Tasks \ {t} : tasks'[u] = tasks[u]
                 /\ UNCHANGED <<streams, response, servers, lock, sessions>>]_vars
    /\ [](\A t \in Tasks :
             (tasks[t].pc = "routed" /\ tasks[t].result.kind = "Ok") =>
                 tasks[t].result.reply = tasks[t].req)
    /\ \A t \in Tasks :
          (tasks[t].kind = "sse" /\ streams[tasks[t].stream].closed) ~> (tasks[t].pc = "idle")

\* C34 witness: the client of a stream is gone, the responder of the stream
\* has read its reply, buffered it and ended, nothing was put on the
\* channel, and the servers guard is free.
C34_Witness ==
    \E i \in DOMAIN streams :
        /\ streams[i].closed
        /\ streams[i].chan = <<>>
        /\ streams[i].out = <<>>
        /\ emitted[streams[i].session] # <<>>
        /\ \A t \in Tasks : tasks[t].pc = "idle"
        /\ lock = 0

----------------------------------------------------------------------------
(* handle_client: one task per accepted local-socket connection *)

\* listener.accept() and the spawn of handle_client, connections in order.
Accept(c) ==
    /\ conns[c].state = "none"
    /\ \A d \in Conns : d < c => conns[d].state # "none"
    /\ conns' = [conns EXCEPT ![c].state = "open"]
    /\ UNCHANGED <<servers, restart_counts, lock, tasks, starts, calls, httpVars, hub, daemon, mutexes>>

\* A handle_client that extracts the name from every line.
server_name_after_PerLine(server_name, line) == extract_server_name(line)

\* if server_name.is_none() { server_name = extract_server_name(&line); }
server_name_after(server_name, line) ==
    IF ~server_name.some THEN extract_server_name(line) ELSE server_name

\* The lines a client sends: not JSON, requests that name a child in
\* params.server, one that names it in its method only, one without a
\* name, and one whose params.server is a number.
ClientLines ==
    {GarbageBody,
     RequestFor(<<"tools", "list">>, "alpha"),
     RequestFor(<<"tools", "list">>, "beta"),
     [json |-> TRUE, method |-> MethodString(<<"alpha", "tools", "list">>),
      server |-> JsonAbsent, id |-> "none"],
     [json |-> TRUE, method |-> MethodAbsent, server |-> JsonAbsent, id |-> "none"],
     [json |-> TRUE, method |-> MethodString(<<"beta", "tools", "list">>),
      server |-> JsonOther, id |-> "none"]}

\* One turn of handle_client's loop up to its await: a line is read, the
\* name is extracted if none is bound, and either route_message is called
\* or the -32602 line is written.
ClientLine(c, t, line) ==
    /\ conns[c].state = "open"
    /\ conns[c].task = 0
    /\ conns[c].lines < MaxLines
    /\ LET server_name == server_name_after(conns[c].server_name, line) IN
         IF server_name.some
         THEN /\ NextSlot(t)
              /\ tasks' = [tasks EXCEPT ![t] = NewCaller("local", server_name.name)]
              /\ calls' = calls + 1
              /\ conns' = [conns EXCEPT ![c].server_name = server_name,
                                        ![c].task = t,
                                        ![c].wrote = <<>>,
                                        ![c].lines = @ + 1]
         ELSE /\ conns' = [conns EXCEPT ![c].wrote = <<0 - 32602>>,
                                        ![c].lines = @ + 1]
              /\ UNCHANGED <<tasks, calls>>
    /\ UNCHANGED <<servers, restart_counts, lock, starts, httpVars, hub, daemon, mutexes>>

\* A handle_client that writes the -32602 line for a failed call too.
client_written_AllParams(result) ==
    IF result.kind = "Ok"
    THEN IF result.reply = 0 THEN <<>> ELSE <<result.reply>>
    ELSE <<0 - 32602>>

\* What handle_client writes for the result of route_message: the bytes of
\* Ok (none when they are empty), the -32603 line for Err.
client_written(result) ==
    IF result.kind = "Ok"
    THEN IF result.reply = 0 THEN <<>> ELSE <<result.reply>>
    ELSE <<0 - 32603>>

\* route_message has returned to handle_client, which writes and goes back
\* to reading.  On a connection the client has left, the write fails and
\* handle_client ends.
ClientReturn(t) ==
    /\ tasks[t].kind = "local"
    /\ tasks[t].pc = "routed"
    /\ \E c \in Conns :
          /\ conns[c].task = t
          /\ conns' = [conns EXCEPT
                ![c].task = 0,
                ![c].wrote = IF conns[c].state = "open"
                             THEN client_written(tasks[t].result)
                             ELSE <<>>]
    /\ tasks' = [tasks EXCEPT ![t] = IdleTask]
    /\ UNCHANGED <<servers, restart_counts, lock, starts, calls, httpVars, hub, daemon, mutexes>>

\* The client closes its end: the next read returns 0, or the next write
\* fails, and handle_client returns.
ClientClose(c) ==
    /\ conns[c].state = "open"
    /\ conns' = [conns EXCEPT ![c].state = "closed"]
    /\ UNCHANGED <<servers, restart_counts, lock, tasks, starts, calls, httpVars, hub, daemon, mutexes>>

NextClient ==
    \/ \E c \in Conns : Accept(c)
    \/ \E c \in Conns, t \in Tasks, line \in ClientLines : ClientLine(c, t, line)
    \/ \E t \in Tasks : RouteLock(t)
    \/ \E t \in Tasks : RouteRead(t)
    \/ \E t \in Tasks : ClientReturn(t)
    \/ \E n \in Names : ChildReply(n)
    \/ \E n \in Names : ChildExit(n)
    \/ \E c \in Conns : ClientClose(c)

ClientSpec == Init /\ [][NextClient]_vars

----------------------------------------------------------------------------
(* Properties of handle_client *)

\* C32: once a connection has a server name, no step changes it, and every
\* later line it reads, whatever params.server or method it carries, is
\* forwarded to the child of that name.
C32_BindingNeverChanges ==
    /\ [][\A c \in Conns : conns[c].server_name.some =>
             /\ conns'[c].server_name = conns[c].server_name
             /\ \A t \in Tasks, line \in ClientLines :
                   ClientLine(c, t, line) =>
                       /\ tasks'[t].pc = "lock"
                       /\ tasks'[t].target = conns[c].server_name.name
                       /\ conns'[c].task = t]_vars
    /\ [](\A c \in Conns : conns[c].task # 0 =>
             tasks[conns[c].task].target = conns[c].server_name.name)

\* C32 witness: a connection has read two lines and both were forwarded,
\* the second one is with the child the connection is bound to.
C32_Witness ==
    \E c \in Conns :
        /\ conns[c].lines = 2
        /\ calls = 2
        /\ \A d \in Conns \ {c} : conns[d].lines = 0
        /\ conns[c].task # 0
        /\ tasks[conns[c].task].req = 2
        /\ tasks[conns[c].task].pc = "read"
        /\ tasks[conns[c].task].target = conns[c].server_name.name

\* C33: a line read while no name is bound and from which none can be
\* extracted is answered with the -32602 line: the connection stays open
\* and unbound, no call is made.  A route_message that fails is answered
\* with the -32603 line and the connection stays open.  Neither touches
\* another connection.
C33_ErrorsKeepConnectionOpen ==
    /\ [][\A c \in Conns, t \in Tasks, line \in ClientLines :
             (/\ ~conns[c].server_name.some
              /\ ~extract_server_name(line).some
              /\ ClientLine(c, t, line)) =>
                 /\ conns'[c].wrote = <<0 - 32602>>
                 /\ conns'[c].state = "open"
                 /\ ~conns'[c].server_name.some
                 /\ conns'[c].task = 0
                 /\ tasks' = tasks
                 /\ \A d \in Conns \ {c} : conns'[d] = conns[d]]_vars
    /\ [][\A c \in Conns, t \in Tasks :
             (/\ conns[c].task = t
              /\ conns[c].state = "open"
              /\ tasks[t].pc = "routed"
              /\ tasks[t].result.kind # "Ok"
              /\ ClientReturn(t)) =>
                 /\ conns'[c].wrote = <<0 - 32603>>
                 /\ conns'[c].state = "open"
                 /\ conns'[c].server_name = conns[c].server_name
                 /\ conns'[c].task = 0
                 /\ \A d \in Conns \ {c} : conns'[d] = conns[d]]_vars

\* C33 witness: the first line of a connection had no name and made no
\* call, its second line bound the connection, the call failed, the -32603
\* line was written and the connection is open.
C33_Witness ==
    \E c \in Conns :
        /\ conns[c].lines = 2
        /\ calls = 1
        /\ \A d \in Conns \ {c} : conns[d].lines = 0
        /\ conns[c].server_name.some
        /\ conns[c].wrote = <<0 - 32603>>
        /\ conns[c].state = "open"

----------------------------------------------------------------------------
(* The start and stop commands and the PID file (daemon/mod.rs) *)

\* kill(pid, None) succeeds: the pid names a process that has not exited.
Alive(proc) == proc.kind # "none" /\ proc.pc # "exited"

\* is_running on the PID file and the processes of d.
is_running(d) == d.pid_file # 0 /\ Alive(d.procs[d.pid_file])

\* The PID file after is_running: a file that names no process is removed.
pid_file_after_is_running(d) ==
    IF d.pid_file # 0 /\ ~Alive(d.procs[d.pid_file]) THEN 0 ELSE d.pid_file

\* The pid the system gives the next process.
FreshPid(p) ==
    /\ daemon.procs[p].kind = "none"
    /\ \A q \in Pids : q < p => daemon.procs[q].kind # "none"

\* A user runs `mcp-citadel start`: main calls daemonize in a new process.
StartCommand(p) ==
    /\ FreshPid(p)
    /\ daemon' = [daemon EXCEPT !.procs[p] = [kind |-> "daemonize", pc |-> "check", child |-> 0]]
    /\ UNCHANGED <<servers, restart_counts, lock, tasks, starts, calls, httpVars, hub, conns, mutexes>>

\* daemonize: if is_running()? { bail }
DaemonizeCheck(p) ==
    /\ daemon.procs[p].kind = "daemonize"
    /\ daemon.procs[p].pc = "check"
    /\ daemon' = [daemon EXCEPT
          !.pid_file = pid_file_after_is_running(daemon),
          !.procs[p].pc = IF is_running(daemon) THEN "exited" ELSE "spawn"]
    /\ UNCHANGED <<servers, restart_counts, lock, tasks, starts, calls, httpVars, hub, conns, mutexes>>

\* daemonize: Command::new(binary).args(["start", "--foreground"]).spawn()
DaemonizeSpawn(p, c) ==
    /\ daemon.procs[p].kind = "daemonize"
    /\ daemon.procs[p].pc = "spawn"
    /\ FreshPid(c)
    /\ daemon' = [daemon EXCEPT
          !.procs[p].pc = "write",
          !.procs[p].child = c,
          !.procs[c] = [kind |-> "hub", pc |-> "check", child |-> 0]]
    /\ UNCHANGED <<servers, restart_counts, lock, tasks, starts, calls, httpVars, hub, conns, mutexes>>

\* daemonize: fs::write(pid_file(), child.id()), and the command returns.
DaemonizeWrite(p) ==
    /\ daemon.procs[p].kind = "daemonize"
    /\ daemon.procs[p].pc = "write"
    /\ daemon' = [daemon EXCEPT
          !.pid_file = daemon.procs[p].child,
          !.procs[p].pc = "exited"]
    /\ UNCHANGED <<servers, restart_counts, lock, tasks, starts, calls, httpVars, hub, conns, mutexes>>

\* start_hub in the spawned process: if daemon::is_running()? { exit(1) }
HubCheck(c) ==
    /\ daemon.procs[c].kind = "hub"
    /\ daemon.procs[c].pc = "check"
    /\ daemon' = [daemon EXCEPT
          !.pid_file = pid_file_after_is_running(daemon),
          !.procs[c].pc = IF is_running(daemon) THEN "exited" ELSE "write"]
    /\ UNCHANGED <<servers, restart_counts, lock, tasks, starts, calls, httpVars, hub, conns, mutexes>>

\* start_hub: daemon::write_pid(std::process::id()), and the hub comes up.
HubWritePid(c) ==
    /\ daemon.procs[c].kind = "hub"
    /\ daemon.procs[c].pc = "write"
    /\ daemon' = [daemon EXCEPT !.pid_file = c, !.procs[c].pc = "running"]
    /\ UNCHANGED <<servers, restart_counts, lock, tasks, starts, calls, httpVars, hub, conns, mutexes>>

\* `mcp-citadel stop`: SIGTERM to the process the file names, then the file
\* is removed.  A hub that has its handler begins its shutdown, a process
\* that has not got there is terminated.  (With no file, or a file naming
\* no process, stop returns an error and changes nothing.)
StopCommand ==
    /\ is_running(daemon)
    /\ daemon' = [daemon EXCEPT
          !.pid_file = 0,
          !.procs[daemon.pid_file].pc = IF @ = "running" THEN "stopping" ELSE "exited"]
    /\ UNCHANGED <<servers, restart_counts, lock, tasks, starts, calls, httpVars, hub, conns, mutexes>>

\* The end of start_hub after the signal: remove_pid, and the process exits.
HubShutdown(c) ==
    /\ daemon.procs[c].kind = "hub"
    /\ daemon.procs[c].pc = "stopping"
    /\ daemon' = [daemon EXCEPT !.pid_file = 0, !.procs[c].pc = "exited"]
    /\ UNCHANGED <<servers, restart_counts, lock, tasks, starts, calls, httpVars, hub, conns, mutexes>>

\* A running hub is killed: nothing removes its PID file.
HubKilled(c) ==
    /\ daemon.procs[c].kind = "hub"
    /\ daemon.procs[c].pc = "running"
    /\ daemon' = [daemon EXCEPT !.procs[c].pc = "exited"]
    /\ UNCHANGED <<servers, restart_counts, lock, tasks, starts, calls, httpVars, hub, conns, mutexes>>

\* No process of the hub exists and there is no PID file; what describes
\* the inside of a hub is that of none.
InitDaemon ==
    /\ daemon = [pid_file |-> 0, procs |-> [p \in Pids |-> NoProc]]
    /\ conns = [c \in Conns |-> NoConn]
    /\ mutexes = MutexesFree
    /\ hub = [HubStarted([n \in Names |-> FALSE]) EXCEPT
                 !.phase = "stopped", !.router_task = "ended", !.http_task = "ended"]
    /\ servers = EmptyMap
    /\ restart_counts = EmptyMap
    /\ starts = [n \in Names |-> 0]
    /\ lock = 0
    /\ tasks = [t \in Tasks |-> IdleTask]
    /\ calls = 0
    /\ sessions = EmptyMap
    /\ created = 0
    /\ emitted = [s \in SessionIds |-> <<>>]
    /\ InitIdle

NextDaemon ==
    \/ \E p \in Pids : StartCommand(p)
    \/ \E p \in Pids : DaemonizeCheck(p)
    \/ \E p, c \in Pids : DaemonizeSpawn(p, c)
    \/ \E p \in Pids : DaemonizeWrite(p)
    \/ \E c \in Pids : HubCheck(c)
    \/ \E c \in Pids : HubWritePid(c)
    \/ StopCommand
    \/ \E c \in Pids : HubShutdown(c)
    \/ \E c \in Pids : HubKilled(c)

DaemonSpec == InitDaemon /\ [][NextDaemon]_vars

----------------------------------------------------------------------------
(* Properties of the daemon start *)

\* C40: the process daemonize spawned does not take a PID file that names
\* its own pid for another running hub: whenever it makes its is_running
\* check with its own pid in the file, it goes on to start the hub.
C40_ChildNotStoppedByOwnPid ==
    [][\A c \in Pids :
          (/\ daemon.procs[c].kind = "hub"
           /\ daemon.procs[c].pc = "check"
           /\ daemon.pid_file = c
           /\ HubCheck(c)) =>
              daemon'.procs[c].pc # "exited"]_vars

----------------------------------------------------------------------------
(* The mutexes of the hub and the order in which its tasks take them *)

Acquire(m) == [op |-> "acquire", m |-> m]      \* m.lock().await
Release(m) == [op |-> "release", m |-> m]      \* the guard is dropped
Await == [op |-> "await", m |-> "none"]        \* an await that ends: the child's reply line,
                                               \* the 100 ms sleep of MCPServerProcess::start
Spawn == [op |-> "spawn", m |-> "none"]        \* tokio::spawn of the responder
Spawned == [op |-> "spawned", m |-> "none"]    \* the responder before it is spawned

\* A direct-JSON handler that keeps the sessions guard over route_message.
locking_HoldsSessions(w) ==
    CASE w = "post_json" -> <<Acquire("sessions"), Acquire("servers"), Await,
                              Release("servers"), Release("sessions")>>
      [] w = "post_sse"  -> <<Acquire("sessions"), Release("sessions"), Spawn>>
      [] w = "responder" -> <<Spawned, Acquire("servers"), Await, Release("servers"),
                              Acquire("sessions"), Release("sessions")>>
      [] w = "get"       -> <<Acquire("sessions"), Release("sessions")>>
      [] w = "sweeper"   -> <<Acquire("sessions"), Release("sessions")>>
      [] w = "health"    -> <<Acquire("servers"), Acquire("restart_counts"), Await,
                              Release("restart_counts"), Release("servers")>>
      [] w = "client"    -> <<Acquire("servers"), Await, Release("servers")>>

\* What each task does with the mutexes, in the order of its code; at the
\* end it starts over (the next request, the next tick).  route_message
\* takes servers and holds it over send_receive; health_check takes servers,
\* then restart_counts, and holds both over the restarts.
locking(w) ==
    CASE w = "post_json" -> <<Acquire("sessions"), Release("sessions"),
                              Acquire("servers"), Await, Release("servers")>>
      [] w = "post_sse"  -> <<Acquire("sessions"), Release("sessions"), Spawn>>
      [] w = "responder" -> <<Spawned, Acquire("servers"), Await, Release("servers"),
                              Acquire("sessions"), Release("sessions")>>
      [] w = "get"       -> <<Acquire("sessions"), Release("sessions")>>
      [] w = "sweeper"   -> <<Acquire("sessions"), Release("sessions")>>
      [] w = "health"    -> <<Acquire("servers"), Acquire("restart_counts"), Await,
                              Release("restart_counts"), Release("servers")>>
      [] w = "client"    -> <<Acquire("servers"), Await, Release("servers")>>

\* The operation a task is at.
NextOp(w) == locking(w)[mutexes.pc[w]]

AfterOp(w) == IF mutexes.pc[w] = Len(locking(w)) THEN 1 ELSE mutexes.pc[w] + 1

\* A task makes its next step.  One responder runs at a time.
WorkerStep(w) ==
    /\ CASE NextOp(w).op = "acquire" ->
              /\ mutexes.held[NextOp(w).m] = "none"
              /\ mutexes' = [mutexes EXCEPT !.held[NextOp(w).m] = w, !.pc[w] = AfterOp(w)]
         [] NextOp(w).op = "release" ->
              mutexes' = [mutexes EXCEPT !.held[NextOp(w).m] = "none", !.pc[w] = AfterOp(w)]
         [] NextOp(w).op = "await" ->
              mutexes' = [mutexes EXCEPT !.pc[w] = AfterOp(w)]
         [] NextOp(w).op = "spawn" ->
              /\ mutexes.pc["responder"] = 1
              /\ mutexes' = [mutexes EXCEPT !.pc[w] = AfterOp(w), !.pc["responder"] = 2]
         [] OTHER -> FALSE
    /\ UNCHANGED <<servers, restart_counts, lock, tasks, starts, calls, httpVars, hub,
                   conns, daemon>>

\* handle_post returns an error from its session step or its name step:
\* the sessions guard is dropped with the handler's locals.
EarlyReturn(w) ==
    /\ w \in {"post_json", "post_sse"}
    /\ mutexes.held["sessions"] = w
    /\ mutexes' = [mutexes EXCEPT !.held["sessions"] = "none", !.pc[w] = 1]
    /\ UNCHANGED <<servers, restart_counts, lock, tasks, starts, calls, httpVars, hub,
                   conns, daemon>>

NextLock ==
    \/ \E w \in Workers : WorkerStep(w)
    \/ \E w \in Workers : EarlyReturn(w)

\* tokio's Mutex is fair (first in, first out), and every task is scheduled.
LockSpec ==
    /\ Init
    /\ [][NextLock]_vars
    /\ \A w \in Workers : SF_vars(WorkerStep(w))

\* w is at m.lock().await.
AtAcquire(w, m) == NextOp(w) = Acquire(m)

Holds(w, m) == mutexes.held[m] = w

\* C39: no task is at the lock of the servers mutex while it holds the
\* sessions mutex, or the reverse; the restart_counts mutex is taken by
\* the health task only, and only while it holds the servers mutex.  With
\* awaits that end (children that reply), every task that is at a lock
\* gets the mutex: handlers, responder, sweeper and health task never
\* deadlock.
C39_LockOrderNoDeadlock ==
    /\ [](\A w \in Workers :
             /\ AtAcquire(w, "servers") => ~Holds(w, "sessions")
             /\ AtAcquire(w, "sessions") => ~Holds(w, "servers")
             /\ (AtAcquire(w, "restart_counts") \/ Holds(w, "restart_counts")) =>
                    (w = "health" /\ Holds(w, "servers")))
    /\ \A w \in Workers, m \in Mutexes : AtAcquire(w, m) ~> Holds(w, m)

\* C39 witness: the health task holds servers and restart_counts, the
\* responder waits for servers, and a handler is inside the session store.
C39_Witness ==
    /\ Holds("health", "servers")
    /\ Holds("health", "restart_counts")
    /\ AtAcquire("responder", "servers")
    /\ Holds("post_sse", "sessions")
    /\ AtAcquire("sweeper", "sessions")

====
